---- MODULE Spec2Model ----
(***************************************************************************)
(* A model of the ranking and recommendation core of the Search-Service:   *)
(*   - SearchService._build_filter_expression and SearchService.search     *)
(*     (src/services/search_service.py),                                   *)
(*   - CFModel, the exploration ranker (src/recommend/cf_model.py),        *)
(*   - RecommendationService, the user-vector synthesis and the recommend  *)
(*     endpoint (src/services/recommend.py).                               *)
(*                                                                         *)
(* Each component is a call/return machine: from "idle" one operation is   *)
(* called with inputs drawn from bounded sets, runs to completion and      *)
(* leaves its inputs and its result in the state; Reset* returns to idle.  *)
(* Python values are tagged records ([t |-> "int", n |-> 3], ...).         *)
(* Time is counted in days (one unit = 24*60*60*1000 ms); real numbers     *)
(* are fixed-point integers.                                               *)
(***************************************************************************)
EXTENDS Integers, Sequences, FiniteSets, TLC

VARIABLES
    fb,       \* the filter builder's current call: phase, filters, now_ms, result
    sr,       \* SearchService.search's current call
    cf,       \* the CFModel ranker's current call
    rs,       \* RecommendationService's current call
    cache,    \* the Redis short-term cache: user id -> cached vector
    redis_client,  \* RecommendationService.redis_client is set (the constructor reached Redis)
    cn,       \* RedisStreamConsumer: the stream, the consumer group and the last cycle of run
    pf,       \* a direct call of a vector helper of RecommendationService
    rc        \* a request thread and a writer thread of RecommendationService, step by step

vars == <<fb, sr, cf, rs, cache, redis_client, cn, pf, rc>>

-----------------------------------------------------------------------------
(* Python values *)

NoneV == [t |-> "none"]
BoolV(b) == [t |-> "bool", b |-> b]
IntV(n) == [t |-> "int", n |-> n]
StrV(s) == [t |-> "str", s |-> s]
ListV(xs) == [t |-> "list", xs |-> xs]

\* bool(v)
Truthy(v) ==
    CASE v.t = "none" -> FALSE
      [] v.t = "bool" -> v.b
      [] v.t = "int" -> v.n /= 0
      [] v.t = "str" -> v.s /= ""
      [] v.t = "list" -> Len(v.xs) > 0

\* The decimal strings of the model's alphabet that int() parses.
ParseInt(s) ==
    CASE s = "2000" -> [ok |-> TRUE, n |-> 2000]
      [] s = "60" -> [ok |-> TRUE, n |-> 60]
      [] OTHER -> [ok |-> FALSE, n |-> 0]

\* int(v): a number, or an exception (ValueError for a non-numeric string,
\* TypeError for None or a list).
IntOf(v) ==
    CASE v.t = "int" -> [ok |-> TRUE, n |-> v.n]
      [] v.t = "bool" -> [ok |-> TRUE, n |-> IF v.b THEN 1 ELSE 0]
      [] v.t = "str" -> ParseInt(v.s)
      [] OTHER -> [ok |-> FALSE, n |-> 0]

\* str(v)
PyStr(v) ==
    CASE v.t = "str" -> v.s
      [] v.t = "int" -> ToString(v.n)
      [] v.t = "bool" -> (IF v.b THEN "True" ELSE "False")
      [] OTHER -> "None"

\* s.replace("'", "\\'") on the strings of the model's alphabet (one of them
\* holds a quote).
EscapeQuote(s) == IF s = "O'Neil" THEN "O\\'Neil" ELSE s

-----------------------------------------------------------------------------
(* SearchService._build_filter_expression *)

MaxKeys == 3      \* a filter object of the model has at most MaxKeys keys

FilterKeys ==
    {"status", "company", "jobRole", "seniority", "workMode", "currency",
     "location", "salaryMin", "salaryMax", "datePosted", "excludeExpired",
     "dateExpires"}

\* The values a caller may supply under each key, the malformed ones included.
FilterValues(k) ==
    CASE k = "status" -> {StrV(""), StrV("PUBLISHED"), StrV("DRAFT"), NoneV}
      [] k = "company" -> {StrV(""), StrV("Acme"), StrV("O'Neil")}
      [] k \in {"jobRole", "seniority", "workMode", "currency", "location"} ->
            {StrV(""), StrV("x")}
      [] k \in {"salaryMin", "salaryMax"} ->
            {NoneV, IntV(1000), StrV("2000"), StrV("abc")}
      [] k = "datePosted" ->
            {IntV(5), ListV(<<IntV(3), IntV(9)>>), ListV(<<IntV(3), StrV("abc")>>),
             StrV("last_7_days"), StrV("last_30_days"), StrV("yesterday"), NoneV}
      [] k = "excludeExpired" -> {BoolV(TRUE), BoolV(FALSE)}
      [] k = "dateExpires" -> {IntV(50), ListV(<<IntV(40), IntV(60)>>), StrV("abc")}

RECURSIVE DictsOver(_, _)
\* The dicts with at most n keys, all from keys.
DictsOver(keys, n) ==
    IF keys = {} \/ n = 0 THEN {<<>>}
    ELSE LET k == CHOOSE x \in keys : TRUE
             without == DictsOver(keys \ {k}, n)
             smaller == DictsOver(keys \ {k}, n - 1)
         IN without \cup
            { [x \in (DOMAIN d) \cup {k} |-> IF x = k THEN v ELSE d[x]] :
                d \in smaller, v \in FilterValues(k) }

\* filters: None, or a dict.
FilterInputs ==
    {[t |-> "none"]} \cup {[t |-> "dict", d |-> d] : d \in DictsOver(FilterKeys, MaxKeys)}

NowSet == {100, 101}     \* datetime.now(), in days

Has(d, k) == k \in DOMAIN d
Get(d, k, default) == IF Has(d, k) THEN d[k] ELSE default

\* One step of the builder: the conditions it appends, or an exception.
Conds(cs) == [raised |-> FALSE, conditions |-> cs]
Raise == [raised |-> TRUE, conditions |-> <<>>]

\* lines 111-115
StatusStep(d) ==
    LET status == Get(d, "status", StrV("PUBLISHED"))
    IN IF Truthy(status)
       THEN Conds(<<"status == '" \o EscapeQuote(PyStr(status)) \o "'">>)
       ELSE Conds(<<>>)

string_fields ==
    << <<"company", "company">>, <<"jobRole", "job_role">>,
       <<"seniority", "seniority">>, <<"workMode", "work_mode">>,
       <<"currency", "currency">> >>

RECURSIVE StringFieldConds(_, _)
\* lines 125-128, from the i-th pair of string_fields on
StringFieldConds(d, i) ==
    IF i > Len(string_fields) THEN <<>>
    ELSE LET filter_key == string_fields[i][1]
             field_name == string_fields[i][2]
             here == IF Has(d, filter_key) /\ Truthy(d[filter_key])
                     THEN <<field_name \o " == '"
                              \o EscapeQuote(PyStr(d[filter_key])) \o "'">>
                     ELSE <<>>
         IN here \o StringFieldConds(d, i + 1)

StringStep(d) == Conds(StringFieldConds(d, 1))

\* lines 131-133
LocationStep(d) ==
    IF Has(d, "location") /\ Truthy(d["location"])
    THEN Conds(<<"location like '%" \o EscapeQuote(PyStr(d["location"])) \o "%'">>)
    ELSE Conds(<<>>)

\* lines 136-139 and 142-145: int() of the value is not guarded
SalaryStep(d, key, lhs) ==
    IF Has(d, key) /\ d[key] /= NoneV
    THEN LET n == IntOf(d[key])
         IN IF n.ok THEN Conds(<<lhs \o ToString(n.n)>>) ELSE Raise
    ELSE Conds(<<>>)

\* A two-element list as a range (lines 150-153 and 173-176).
RangeConds(field, v) ==
    LET lo == IntOf(v.xs[1])
        hi == IntOf(v.xs[2])
    IN IF lo.ok /\ hi.ok
       THEN Conds(<<field \o " >= " \o ToString(lo.n), field \o " <= " \o ToString(hi.n)>>)
       ELSE Raise

\* An exact timestamp (lines 165 and 179).
ExactConds(field, v) ==
    LET n == IntOf(v)
    IN IF n.ok THEN Conds(<<field \o " == " \o ToString(n.n)>>) ELSE Raise

\* lines 148-165
DatePostedStep(d, now_ms) ==
    IF ~Has(d, "datePosted") THEN Conds(<<>>)
    ELSE LET date_posted == d["datePosted"]
         IN CASE date_posted.t = "list" /\ Len(date_posted.xs) = 2 ->
                    RangeConds("date_posted", date_posted)
              [] date_posted.t = "str" ->
                    (CASE date_posted.s = "last_7_days" ->
                            Conds(<<"date_posted >= " \o ToString(now_ms - 7)>>)
                       [] date_posted.s = "last_30_days" ->
                            Conds(<<"date_posted >= " \o ToString(now_ms - 30)>>)
                       [] OTHER -> Conds(<<>>))
              [] OTHER -> ExactConds("date_posted", date_posted)

\* The non-expired condition of line 170.
NonExpired(now_ms) ==
    "(date_expires == 0 || date_expires > " \o ToString(now_ms) \o ")"

\* lines 168-179
DateExpiresStep(d, now_ms) ==
    IF Truthy(Get(d, "excludeExpired", BoolV(TRUE)))
    THEN Conds(<<NonExpired(now_ms)>>)
    ELSE IF Has(d, "dateExpires")
    THEN LET date_expires == d["dateExpires"]
         IN IF date_expires.t = "list" /\ Len(date_expires.xs) = 2
            THEN RangeConds("date_expires", date_expires)
            ELSE ExactConds("date_expires", date_expires)
    ELSE Conds(<<>>)

RECURSIVE JoinAnd(_)
\* " && ".join(conditions)
JoinAnd(cs) ==
    IF Len(cs) = 0 THEN ""
    ELSE IF Len(cs) = 1 THEN cs[1]
    ELSE cs[1] \o " && " \o JoinAnd(Tail(cs))

PublishedOnly == "status == 'PUBLISHED'"

\* The result of a call: an exception, or the predicate (expr) and the
\* conditions it joins.
FilterResult(raised, cs) ==
    [raised |-> raised,
     conditions |-> IF raised THEN <<>> ELSE cs,
     expr |-> IF raised THEN "" ELSE JoinAnd(cs)]

\* "if not filters": None and the empty dict.
FiltersTruthy(filters) == filters.t = "dict" /\ DOMAIN filters.d /= {}

\* _build_filter_expression(filters), lines 105-186
BuildFilterExpression(filters, now_ms) ==
    IF ~FiltersTruthy(filters) THEN FilterResult(FALSE, <<PublishedOnly>>)
    ELSE LET d == filters.d
             steps == <<StatusStep(d), StringStep(d), LocationStep(d),
                        SalaryStep(d, "salaryMin", "salary_min >= "),
                        SalaryStep(d, "salaryMax", "salary_max <= "),
                        DatePostedStep(d, now_ms), DateExpiresStep(d, now_ms)>>
             raised == \E i \in 1..Len(steps) : steps[i].raised
             conditions == steps[1].conditions \o steps[2].conditions
                             \o steps[3].conditions \o steps[4].conditions
                             \o steps[5].conditions \o steps[6].conditions
                             \o steps[7].conditions
         IN IF raised THEN FilterResult(TRUE, <<>>)
            ELSE IF conditions /= <<>> THEN FilterResult(FALSE, conditions)
            ELSE FilterResult(FALSE, <<PublishedOnly>>)

FbIdle ==
    [phase |-> "idle", filters |-> [t |-> "none"], now_ms |-> 0,
     out |-> FilterResult(FALSE, <<>>)]

\* A caller builds the predicate of one filter object.
BuildFilter ==
    /\ fb.phase = "idle"
    /\ \E filters \in FilterInputs, now_ms \in NowSet :
         fb' = [phase |-> "done", filters |-> filters, now_ms |-> now_ms,
                out |-> BuildFilterExpression(filters, now_ms)]
    /\ UNCHANGED <<sr, cf, rs, cache, redis_client, cn, pf, rc>>

ResetFilter ==
    /\ fb.phase = "done"
    /\ fb' = FbIdle
    /\ UNCHANGED <<sr, cf, rs, cache, redis_client, cn, pf, rc>>

-----------------------------------------------------------------------------
(* SearchService.search *)

MaxLimit == 3     \* a page holds at most MaxLimit ids
MaxOffset == 2    \* page numbers 0..MaxOffset

ScoreSet == {NoneV, IntV(1), IntV(2), IntV(3)}    \* hit.score: None, or a number
ThresholdSet == {0, 2}

\* The filter objects search is called with.
SearchFilterInputs ==
    {[t |-> "none"],
     [t |-> "dict", d |-> <<>>],
     [t |-> "dict", d |-> [company |-> StrV("Acme")]],
     [t |-> "dict", d |-> [salaryMin |-> StrV("abc")]]}

\* The id of the hit that stands at position i of the window that starts at
\* offset*limit of the fused ranking.
HitId(offset, limit, i) == offset * limit + i

\* What hybrid_search(offset=offset*limit, limit=limit+1) may answer: at most
\* limit+1 hits, each with a score.
HitLists(offset, limit) ==
    UNION { { [i \in 1..n |-> [id |-> HitId(offset, limit, i), score |-> sc[i]]] :
                sc \in [1..n -> ScoreSet] } : n \in 0..(limit + 1) }

\* The test of line 85 with <= in place of <
DroppedAtThreshold(hit, threshold) ==
    hit.score = NoneV \/ hit.score.n <= threshold

\* lines 85-86: the hit is dropped
Dropped(hit, threshold) ==
    hit.score = NoneV \/ hit.score.n < threshold

RECURSIVE Qualifying(_, _)
\* lines 82-90: the ids of the hits that are kept, in the order of the hits
Qualifying(hits, threshold) ==
    IF hits = <<>> THEN <<>>
    ELSE (IF Dropped(Head(hits), threshold) THEN <<>> ELSE <<Head(hits).id>>)
            \o Qualifying(Tail(hits), threshold)

\* line 92
HasNextMutant(job_ids, limit) == Len(job_ids) >= limit
HasNext(job_ids, limit) == Len(job_ids) > limit

\* line 93: job_ids[:limit]
Truncate(job_ids, limit) ==
    SubSeq(job_ids, 1, IF Len(job_ids) < limit THEN Len(job_ids) ELSE limit)

\* line 100
HasPrev(offset) == offset > 0

NoPage == [limit |-> 0, offset |-> 0, count |-> 0, has_next |-> FALSE, has_prev |-> FALSE]

\* lines 82-103: what search returns for the hits of the fused query
SearchReturn(hits, limit, offset, threshold) ==
    LET all_ids == Qualifying(hits, threshold)
        job_ids == Truncate(all_ids, limit)
    IN [raised |-> FALSE,
        job_ids |-> job_ids,
        pagination |-> [limit |-> limit, offset |-> offset, count |-> Len(job_ids),
                        has_next |-> HasNext(all_ids, limit),
                        has_prev |-> HasPrev(offset)]]

SearchRaise == [raised |-> TRUE, job_ids |-> <<>>, pagination |-> NoPage]

SrIdle ==
    [phase |-> "idle", limit |-> 1, offset |-> 0, threshold |-> 0,
     filters |-> [t |-> "none"], hits |-> <<>>, out |-> SearchRaise, pages |-> <<>>]

\* hit.score in a fused ranking: None, below the threshold 2, above it
RankScores == {NoneV, IntV(1), IntV(3)}

\* The fused ranking of one query over an index that does not change: the
\* two subqueries are asked for limit candidates each (lines 60-73), so the
\* reranker orders at most 2*limit of them.  A hit's id is its position.
Rankings(limit) ==
    UNION { { [i \in 1..n |-> [id |-> i, score |-> sc[i]]] : sc \in [1..n -> RankScores] } :
              n \in 0..(2 * limit) }

\* hybrid_search(offset=offset*limit, limit=limit+1) over a ranking (lines
\* 75-81): the hits from position offset*limit+1 on, limit+1 of them at most.
Window(ranking, offset, limit) ==
    LET first == offset * limit + 1
        last == offset * limit + limit + 1
    IN SubSeq(ranking, first, IF Len(ranking) < last THEN Len(ranking) ELSE last)

\* search(query, limit, offset, threshold, filters) with the embedding service
\* and the vector index answering.
Search ==
    /\ sr.phase = "idle"
    /\ \E limit \in 1..MaxLimit, offset \in 0..MaxOffset, threshold \in ThresholdSet,
          filters \in SearchFilterInputs, now_ms \in {100} :
         \E hits \in HitLists(offset, limit) :
            sr' = [phase |-> "done", limit |-> limit, offset |-> offset,
                   threshold |-> threshold, filters |-> filters, hits |-> hits,
                   out |-> IF BuildFilterExpression(filters, now_ms).raised
                           THEN SearchRaise
                           ELSE SearchReturn(hits, limit, offset, threshold),
                   pages |-> <<>>]
    /\ UNCHANGED <<fb, cf, rs, cache, redis_client, cn, pf, rc>>

\* search when the embedding service or the vector index is unavailable:
\* lines 51-52 and 75-81 are not guarded.
SearchUpstreamDown ==
    /\ sr.phase = "idle"
    /\ \E limit \in 1..MaxLimit, offset \in 0..MaxOffset, threshold \in ThresholdSet,
          filters \in SearchFilterInputs :
         sr' = [phase |-> "done", limit |-> limit, offset |-> offset,
                threshold |-> threshold, filters |-> filters, hits |-> <<>>,
                out |-> SearchRaise, pages |-> <<>>]
    /\ UNCHANGED <<fb, cf, rs, cache, redis_client, cn, pf, rc>>

\* search(query, limit, offset, threshold, None) for offset = 0, 1, ...,
\* MaxOffset + 1, the same query, limit and threshold in every call and the
\* index unchanged between the calls: pages[p + 1] is what the call with
\* offset = p returns.
SearchPages ==
    /\ sr.phase = "idle"
    /\ \E limit \in 1..MaxLimit, threshold \in ThresholdSet :
         \E ranking \in Rankings(limit) :
            sr' = [phase |-> "paged", limit |-> limit, offset |-> 0,
                   threshold |-> threshold, filters |-> [t |-> "none"],
                   hits |-> ranking, out |-> SearchRaise,
                   pages |-> [q \in 1..(MaxOffset + 2) |->
                                SearchReturn(Window(ranking, q - 1, limit), limit, q - 1,
                                             threshold)]]
    /\ UNCHANGED <<fb, cf, rs, cache, redis_client, cn, pf, rc>>

ResetSearch ==
    /\ sr.phase \in {"done", "paged"}
    /\ sr' = SrIdle
    /\ UNCHANGED <<fb, cf, rs, cache, redis_client, cn, pf, rc>>

-----------------------------------------------------------------------------
(* CFModel: the exploration ranker *)

NSmall == 3       \* items of the small catalogue (every user row is enumerated)
NBig == 21        \* items of the big catalogue (rows of every maturity tier)
MaxK == 3         \* k ranges over 0..MaxK

NegInf == -1000000    \* -np.inf: below every score of the model

Min(a, b) == IF a < b THEN a ELSE b
Max(a, b) == IF a > b THEN a ELSE b

\* seq[:n]
Take(seq, n) == SubSeq(seq, 1, Min(Max(n, 0), Len(seq)))

\* np.dot of two factor vectors
Dot(a, b) == a[1] * b[1] + a[2] * b[2]

\* model.item_factors[i] of the two trained snapshots of the model (fv).
ItemFactor(fv, i) ==
    IF fv = 1 THEN <<(i % 3) - 1, (i \div 3) % 2>>
    ELSE <<(i % 2), 1 - (i % 3)>>

\* A trained snapshot: the catalogue size n, the item factors (fv), the row
\* model.user_factors[uidx] (uf) and the user factor that the library
\* recomputes from the user's row under recalculate_user=True (lib).
Snapshots(n) ==
    {[n |-> n, fv |-> 1, uf |-> <<2, 1>>, lib |-> <<2, 1>>],
     [n |-> n, fv |-> 2, uf |-> <<1, 2>>, lib |-> <<2, -1>>]}

\* user_id_to_index: user 7 is row 1 of the matrix, user 999999 is unknown.
KnownUser == 7
UnknownUser == 999999
UserIds == {KnownUser, UnknownUser}

\* index_to_item_id: total and one-to-one, partial (index 1 is unmapped), or
\* two indexes with the same job id.
ItemMaps(n) ==
    {[i \in 1..n |-> 100 + i],
     [i \in 2..n |-> 100 + i],
     [i \in 1..n |-> IF i = 1 THEN 102 ELSE 100 + i]}

\* user_row > 0 (lines 111, 188-189, 225-226)
SeenIndices(row) == {i \in DOMAIN row : row[i] > 0}

\* The entries the library takes as already liked: the stored ones.
LikedIndices(row) == {i \in DOMAIN row : row[i] /= 0}

RECURSIVE RankDesc(_, _)
\* The indices of S by descending f, equal values by ascending index.
RankDesc(S, f) ==
    IF S = {} THEN <<>>
    ELSE LET best == CHOOSE i \in S :
                        \A j \in S : f[i] > f[j] \/ (f[i] = f[j] /\ i <= j)
         IN <<best>> \o RankDesc(S \ {best}, f)

\* model.recommend(userid, user_items, N, filter_already_liked_items,
\* recalculate_user=True) of the factorization library: the N best items.
ModelRecommend(snap, row, N, filter_seen) ==
    LET f == [i \in 1..snap.n |-> Dot(snap.lib, ItemFactor(snap.fv, i))]
        S == IF filter_seen THEN (1..snap.n) \ LikedIndices(row) ELSE 1..snap.n
        top == Take(RankDesc(S, f), N)
    IN [j \in 1..Len(top) |-> [item_index |-> top[j], score |-> f[top[j]]]]

RECURSIVE MapRecs(_, _)
\* lines 164-169: indices to job ids, the unmapped ones dropped
MapRecs(recs, index_to_item_id) ==
    IF recs = <<>> THEN <<>>
    ELSE (IF Head(recs).item_index \in DOMAIN index_to_item_id
          THEN <<[job_id |-> index_to_item_id[Head(recs).item_index],
                  score |-> Head(recs).score]>>
          ELSE <<>>) \o MapRecs(Tail(recs), index_to_item_id)

\* _top_k_exploit with the list of the library taken from its end
TopKExploitReversed(snap, row, index_to_item_id, k, filter_seen) ==
    LET out == MapRecs(ModelRecommend(snap, row, k, filter_seen), index_to_item_id)
    IN [j \in 1..Len(out) |-> out[Len(out) + 1 - j]]

\* _top_k_exploit, lines 148-169
TopKExploit(snap, row, index_to_item_id, k, filter_seen) ==
    MapRecs(ModelRecommend(snap, row, k, filter_seen), index_to_item_id)

RECURSIVE KSubsets(_, _)
\* The subsets of S with m elements.
KSubsets(S, m) ==
    IF m = 0 THEN {{}}
    ELSE IF S = {} THEN {}
    ELSE LET x == CHOOSE y \in S : TRUE
         IN KSubsets(S \ {x}, m) \cup {T \cup {x} : T \in KSubsets(S \ {x}, m - 1)}

RECURSIVE SetToSeq(_)
SetToSeq(S) ==
    IF S = {} THEN <<>>
    ELSE LET x == CHOOSE y \in S : \A z \in S : y <= z
         IN <<x>> \o SetToSeq(S \ {x})

\* The orders rng.shuffle may leave a list in.
Shuffles(seq) ==
    {[i \in 1..Len(seq) |-> seq[p[i]]] : p \in Permutations(1..Len(seq))}

\* An explore budget that is never empty.
ExploreCountAtLeastOne(k, epsilon) == Max(1, (k * epsilon) \div 100)

\* int(k * epsilon), epsilon in hundredths
ExploreCount(k, epsilon) == (k * epsilon) \div 100

\* line 201: the first index that maps to job_id
IndexOfJob(index_to_item_id, job_id) ==
    CHOOSE i \in DOMAIN index_to_item_id :
        /\ index_to_item_id[i] = job_id
        /\ \A j \in DOMAIN index_to_item_id : index_to_item_id[j] = job_id => i <= j

\* The candidates of the explore draw with the exploited items left in
AvailableWithExploited(all_items, seen_items, exploited_items) ==
    all_items \ seen_items

\* line 193: available = all_items - seen_items - exploited_items
Available(all_items, seen_items, exploited_items) ==
    (all_items \ seen_items) \ exploited_items

\* _top_k_epsilon_greedy, lines 171-208: the lists it may return (one for
\* each draw of rng.choice and rng.shuffle)
TopKEpsilonGreedy(snap, row, index_to_item_id, k, filter_seen, epsilon) ==
    LET explore_count == ExploreCount(k, epsilon)
        exploit_count == k - explore_count
        exploit_recs == TopKExploit(snap, row, index_to_item_id, exploit_count, filter_seen)
        seen_items == IF filter_seen
                      THEN {index_to_item_id[i] :
                              i \in SeenIndices(row) \cap DOMAIN index_to_item_id}
                      ELSE {}
        exploited_items == {exploit_recs[i].job_id : i \in 1..Len(exploit_recs)}
        all_items == {index_to_item_id[i] : i \in DOMAIN index_to_item_id}
        available == Available(all_items, seen_items, exploited_items)
        explore_count_actual == Min(explore_count, Cardinality(available))
    IN IF explore_count <= 0 THEN {exploit_recs}
       ELSE IF available = {} THEN {exploit_recs}
       ELSE UNION {
              LET jobs == SetToSeq(explored_items)
                  explore_recs ==
                      [j \in 1..Len(jobs) |->
                          [job_id |-> jobs[j],
                           score |-> Dot(snap.uf,
                                         ItemFactor(snap.fv,
                                                    IndexOfJob(index_to_item_id, jobs[j])))]]
              IN {Take(all_recs, k) : all_recs \in Shuffles(exploit_recs \o explore_recs)}
              : explored_items \in KSubsets(available, explore_count_actual) }

\* rng.normal(0, noise_scale, size): the draws of the model; all of them are
\* zero when the scale is zero.
NoiseSet(noise_scale) ==
    IF noise_scale = 0 THEN {<<0, 0>>}
    ELSE {<<a, b>> : a \in {-3, 0, 3}, b \in {-3, 0, 3}}

RECURSIVE ThompsonOut(_, _, _)
\* lines 233-239: job ids with the score against the original user factor
ThompsonOut(top_indices, snap, index_to_item_id) ==
    IF top_indices = <<>> THEN <<>>
    ELSE (IF Head(top_indices) \in DOMAIN index_to_item_id
          THEN <<[job_id |-> index_to_item_id[Head(top_indices)],
                  score |-> Dot(snap.uf, ItemFactor(snap.fv, Head(top_indices)))]>>
          ELSE <<>>) \o ThompsonOut(Tail(top_indices), snap, index_to_item_id)

\* _top_k_thompson, lines 210-240: the lists it may return (one per noise)
TopKThompson(snap, row, index_to_item_id, k, filter_seen, noise_scale) ==
    { LET user_factor_noisy == <<snap.uf[1] + noise[1], snap.uf[2] + noise[2]>>
          scores == [i \in 1..snap.n |->
                        IF filter_seen /\ i \in SeenIndices(row) THEN NegInf
                        ELSE Dot(user_factor_noisy, ItemFactor(snap.fv, i))]
          top_indices == Take(RankDesc(1..snap.n, scores), k)
      IN Take(ThompsonOut(top_indices, snap, index_to_item_id), k)
      : noise \in NoiseSet(noise_scale) }

\* line 254: {jid: idx for idx, jid in index_to_item_id.items()}, the last
\* index of a job id wins
ItemIdToIndex(index_to_item_id, job_id) ==
    CHOOSE i \in DOMAIN index_to_item_id :
        /\ index_to_item_id[i] = job_id
        /\ \A j \in DOMAIN index_to_item_id : index_to_item_id[j] = job_id => j <= i

RECURSIVE SumSim(_, _, _, _)
\* the sum of selected_vecs @ item_vec (line 269)
SumSim(selected, item_idx, snap, index_to_item_id) ==
    IF selected = <<>> THEN 0
    ELSE Dot(ItemFactor(snap.fv, ItemIdToIndex(index_to_item_id, Head(selected).job_id)),
             ItemFactor(snap.fv, item_idx))
         + SumSim(Tail(selected), item_idx, snap, index_to_item_id)

\* The two weights of line 276 taken the other way round.
MmrScoreSwapped(rec, selected, snap, index_to_item_id, diversity_weight) ==
    LET n == Max(1, Len(selected))
        item_idx == ItemIdToIndex(index_to_item_id, rec.job_id)
        sum == SumSim(selected, item_idx, snap, index_to_item_id)
    IN diversity_weight * rec.score * n + (100 - diversity_weight) * (n - sum)

\* line 276, times 100 * max(1, len(selected)): diversity_weight is in
\* hundredths and the mean similarity is the sum over len(selected); within
\* one pass of the loop every candidate has the same factor.
MmrScore(rec, selected, snap, index_to_item_id, diversity_weight) ==
    LET n == Max(1, Len(selected))
        item_idx == ItemIdToIndex(index_to_item_id, rec.job_id)
        sum == SumSim(selected, item_idx, snap, index_to_item_id)
    IN (100 - diversity_weight) * rec.score * n + diversity_weight * (n - sum)

RECURSIVE BestIdx(_, _, _, _, _, _, _, _)
\* lines 258-279: the scan of remaining from position idx on
BestIdx(remaining, idx, best_idx, best_score, selected, snap, index_to_item_id, dw) ==
    IF idx > Len(remaining) THEN best_idx
    ELSE LET mmr_score == MmrScore(remaining[idx], selected, snap, index_to_item_id, dw)
         IN IF mmr_score > best_score
            THEN BestIdx(remaining, idx + 1, idx, mmr_score, selected, snap,
                         index_to_item_id, dw)
            ELSE BestIdx(remaining, idx + 1, best_idx, best_score, selected, snap,
                         index_to_item_id, dw)

\* remaining.pop(i) leaves this list
Without(seq, i) == SubSeq(seq, 1, i - 1) \o SubSeq(seq, i + 1, Len(seq))

RECURSIVE MmrLoop(_, _, _, _, _, _)
\* lines 257-280
MmrLoop(selected, remaining, k, snap, index_to_item_id, dw) ==
    IF Len(selected) < k /\ remaining /= <<>>
    THEN LET best_idx == BestIdx(remaining, 1, 1, NegInf, selected, snap,
                                 index_to_item_id, dw)
         IN MmrLoop(Append(selected, remaining[best_idx]), Without(remaining, best_idx),
                    k, snap, index_to_item_id, dw)
    ELSE selected

\* _top_k_with_diversity, lines 242-281
TopKWithDiversity(snap, row, index_to_item_id, k, filter_seen, diversity_weight) ==
    LET candidates == TopKExploit(snap, row, index_to_item_id, k * 3, filter_seen)
    IN IF Len(candidates) <= k THEN candidates
       ELSE Take(MmrLoop(<<>>, candidates, k, snap, index_to_item_id, diversity_weight), k)

\* The defaults of recommend's keyword parameters (hundredths).
DefaultEpsilon == 15
DefaultNoiseScale == 10
DefaultDiversityWeight == 30

\* What recommend_with_adaptive_exploration passes on, and its two thresholds.
AdaptiveColdBelow == 5
AdaptiveGrowingBelow == 20
AdaptiveEpsilon == 30
AdaptiveNoiseScale == 10
AdaptiveDiversityWeight == 30

Strategies == {"none", "epsilon_greedy", "thompson", "diversity"}

Args(strategy, epsilon, noise_scale, diversity_weight) ==
    [strategy |-> strategy, epsilon |-> epsilon, noise_scale |-> noise_scale,
     diversity_weight |-> diversity_weight]

Returned(recs) == [raised |-> FALSE, recs |-> recs]
Crashed == [raised |-> TRUE, recs |-> <<>>]

\* lines 85-93: the strategy that runs for exploration_strategy
Dispatch(in, args) ==
    CASE args.strategy = "none" ->
            {TopKExploit(in.snap, in.row, in.map, in.k, in.filter_seen)}
      [] args.strategy = "epsilon_greedy" ->
            TopKEpsilonGreedy(in.snap, in.row, in.map, in.k, in.filter_seen, args.epsilon)
      [] args.strategy = "thompson" ->
            TopKThompson(in.snap, in.row, in.map, in.k, in.filter_seen, args.noise_scale)
      [] args.strategy = "diversity" ->
            {TopKWithDiversity(in.snap, in.row, in.map, in.k, in.filter_seen,
                               args.diversity_weight)}
      [] OTHER ->
            {TopKExploit(in.snap, in.row, in.map, in.k, in.filter_seen)}

\* A ranker without the guards of lines 76-81: it goes on with no model or
\* with uidx = None and fails.
RecommendUnguarded(trained, user_id, in, args) ==
    IF ~trained \/ user_id /= KnownUser THEN {Crashed}
    ELSE {Returned(recs) : recs \in Dispatch(in, args)}

\* CFModel.recommend, lines 61-93: what it may return
Recommend(trained, user_id, in, args) ==
    IF ~trained THEN {Returned(<<>>)}
    ELSE IF user_id /= KnownUser THEN {Returned(<<>>)}
    ELSE {Returned(recs) : recs \in Dispatch(in, args)}

\* A count of the stored entries, whatever their sign.
InteractionCountNonzero(row) == Cardinality({i \in DOMAIN row : row[i] /= 0})

\* lines 110-111: int(np.sum(user_row > 0))
InteractionCount(row) == Cardinality(SeenIndices(row))

\* Strategy tiers whose upper ends take the threshold in.
AdaptiveArgsInclusive(interaction_count) ==
    IF interaction_count <= AdaptiveColdBelow
    THEN Args("epsilon_greedy", AdaptiveEpsilon, DefaultNoiseScale, DefaultDiversityWeight)
    ELSE IF interaction_count <= AdaptiveGrowingBelow
    THEN Args("thompson", DefaultEpsilon, AdaptiveNoiseScale, DefaultDiversityWeight)
    ELSE Args("diversity", DefaultEpsilon, DefaultNoiseScale, AdaptiveDiversityWeight)

\* lines 112-120: the strategy and the parameter passed to recommend
AdaptiveArgs(interaction_count) ==
    IF interaction_count < AdaptiveColdBelow
    THEN Args("epsilon_greedy", AdaptiveEpsilon, DefaultNoiseScale, DefaultDiversityWeight)
    ELSE IF interaction_count < AdaptiveGrowingBelow
    THEN Args("thompson", DefaultEpsilon, AdaptiveNoiseScale, DefaultDiversityWeight)
    ELSE Args("diversity", DefaultEpsilon, DefaultNoiseScale, AdaptiveDiversityWeight)

NoArgs == Args("", 0, 0, 0)

\* recommend_with_adaptive_exploration, lines 95-120: the arguments it runs
\* recommend with (NoArgs when it returns before), and what it may return
RecommendAdaptive(trained, user_id, in) ==
    IF ~trained THEN {[ran |-> NoArgs, res |-> Returned(<<>>)]}
    ELSE IF user_id /= KnownUser THEN {[ran |-> NoArgs, res |-> Returned(<<>>)]}
    ELSE LET args == AdaptiveArgs(InteractionCount(in.row))
         IN {[ran |-> args, res |-> r] : r \in Recommend(trained, user_id, in, args)}

\* The rows of the big catalogue: the first c items interacted with, and
\* possibly one more entry that is stored with a negative value.
BigRows ==
    {[i \in 1..NBig |-> IF i <= c THEN 1 ELSE IF neg /\ i = c + 1 THEN -1 ELSE 0] :
        c \in 0..NBig, neg \in BOOLEAN}

\* The snapshots, rows, maps, k and filter_seen of the calls.
SmallInputs ==
    [snap : Snapshots(NSmall), row : [1..NSmall -> {-1, 0, 1}], map : ItemMaps(NSmall),
     k : 0..MaxK, filter_seen : BOOLEAN]

BigInputs ==
    [snap : {[n |-> NBig, fv |-> 1, uf |-> <<2, 1>>, lib |-> <<2, 1>>]}, row : BigRows,
     map : {[i \in 1..NBig |-> 100 + i]}, k : {1, MaxK + 1}, filter_seen : BOOLEAN]

\* The arguments of the direct calls of recommend.
DirectArgs ==
    {Args("none", DefaultEpsilon, DefaultNoiseScale, DefaultDiversityWeight),
     Args("popular", DefaultEpsilon, DefaultNoiseScale, DefaultDiversityWeight)}
    \cup {Args("epsilon_greedy", e, DefaultNoiseScale, DefaultDiversityWeight) :
            e \in {0, DefaultEpsilon, AdaptiveEpsilon, 50, 100}}
    \cup {Args("thompson", DefaultEpsilon, n, DefaultDiversityWeight) :
            n \in {0, DefaultNoiseScale}}
    \cup {Args("diversity", DefaultEpsilon, DefaultNoiseScale, w) :
            w \in {0, DefaultDiversityWeight}}

CfIdle ==
    [phase |-> "idle", op |-> "", trained |-> FALSE, user_id |-> KnownUser,
     in |-> [snap |-> [n |-> 0, fv |-> 1, uf |-> <<0, 0>>, lib |-> <<0, 0>>],
             row |-> <<>>, map |-> <<>>, k |-> 0, filter_seen |-> FALSE],
     args |-> NoArgs, ran |-> NoArgs, out |-> Returned(<<>>)]

\* A caller runs CFModel.recommend.
CallRecommend ==
    /\ cf.phase = "idle"
    /\ \E trained \in BOOLEAN, user_id \in UserIds, in \in SmallInputs, args \in DirectArgs :
         \E out \in Recommend(trained, user_id, in, args) :
            cf' = [phase |-> "done", op |-> "recommend", trained |-> trained,
                   user_id |-> user_id, in |-> in, args |-> args, ran |-> args,
                   out |-> out]
    /\ UNCHANGED <<fb, sr, rs, cache, redis_client, cn, pf, rc>>

\* A caller runs CFModel.recommend_with_adaptive_exploration.
CallAdaptive ==
    /\ cf.phase = "idle"
    /\ \E trained \in BOOLEAN, user_id \in UserIds, in \in SmallInputs \cup BigInputs :
         \E o \in RecommendAdaptive(trained, user_id, in) :
            cf' = [phase |-> "done", op |-> "adaptive", trained |-> trained,
                   user_id |-> user_id, in |-> in, args |-> NoArgs, ran |-> o.ran,
                   out |-> o.res]
    /\ UNCHANGED <<fb, sr, rs, cache, redis_client, cn, pf, rc>>

ResetCF ==
    /\ cf.phase = "done"
    /\ cf' = CfIdle
    /\ UNCHANGED <<fb, sr, rs, cache, redis_client, cn, pf, rc>>

-----------------------------------------------------------------------------
(* RecommendationService: vectors *)

Dim == 2          \* milvus_service.dense_dim, the configured dimension

Scale == 100      \* the float 1.0 in the fixed-point components of a vector
WeightOne == 10   \* the float 1.0 in a blend weight (0.9 is 9)

\* A list of floats (rank 1, the one row) or a list of lists of floats
\* (rank 2), as np.array sees it.
Flat(v) == [rank |-> 1, rows |-> <<v>>]
Nested(rows) == [rank |-> 2, rows |-> rows]
EmptyVec == Flat(<<>>)

\* len(x); "not x" is PyLen(x) = 0
PyLen(x) == IF x.rank = 1 THEN Len(x.rows[1]) ELSE Len(x.rows)
NonEmpty(x) == PyLen(x) > 0

Zeros(n) == [i \in 1..n |-> 0]

\* The sum of the elements of q, by halves.
SumSeq(q) ==
    LET RECURSIVE Sum(_, _)
        Sum(lo, hi) ==
            IF lo > hi THEN 0
            ELSE IF lo = hi THEN q[lo]
            ELSE Sum(lo, (lo + hi) \div 2) + Sum((lo + hi) \div 2 + 1, hi)
    IN Sum(1, Len(q))

\* The square of np.linalg.norm(x): over every component (Frobenius for rank 2).
SumSq(x) ==
    SumSeq([r \in 1..Len(x.rows) |->
              SumSeq([c \in 1..Len(x.rows[r]) |-> x.rows[r][c] * x.rows[r][c]])])

Abs(n) == IF n < 0 THEN -n ELSE n

\* a / b, rounded towards zero
TruncDiv(a, b) == IF a < 0 THEN -((-a) \div b) ELSE a \div b

RECURSIVE SqrtIn(_, _, _)
\* The largest r in lo..hi with r * r <= n.
SqrtIn(lo, hi, n) ==
    IF lo = hi THEN lo
    ELSE LET mid == (lo + hi + 1) \div 2
         IN IF mid * mid <= n THEN SqrtIn(mid, hi, n) ELSE SqrtIn(lo, mid - 1, n)

\* np.linalg.norm(x), in units of 1/Scale of a component's unit
Norm(x) == SqrtIn(0, 4 * Scale * Scale, SumSq(x) * Scale * Scale)

\* _normalize_vector, lines 427-445
NormalizeVector(vector) ==
    IF ~NonEmpty(vector) THEN EmptyVec
    ELSE LET norm == Norm(vector)
         IN IF norm > 0
            THEN [rank |-> vector.rank,
                  rows |-> [r \in 1..Len(vector.rows) |->
                              [c \in 1..Len(vector.rows[r]) |->
                                  TruncDiv(vector.rows[r][c] * Scale * Scale, norm)]]]
            ELSE vector

\* The shape np.array(x) has: rows and columns, a rank-1 array as one row.
NRows(x) == Len(x.rows)
NCols(x) == IF Len(x.rows) = 0 THEN 0 ELSE Len(x.rows[1])

\* np.pad(x, (0, p), mode='constant'): p zeros at the end of every axis
PadEnd(x, p) ==
    IF p = 0 THEN x
    ELSE IF x.rank = 1 THEN Flat(x.rows[1] \o Zeros(p))
    ELSE Nested([r \in 1..(NRows(x) + p) |->
                    IF r <= NRows(x) THEN x.rows[r] \o Zeros(p)
                    ELSE Zeros(NCols(x) + p)])

VecOk(v) == [raised |-> FALSE, vec |-> v]
VecRaise == [raised |-> TRUE, vec |-> EmptyVec]

\* wa * vec_a + wb * vec_b (line 484), the weights in tenths; ValueError when
\* the shapes do not broadcast
WeightedSum(A, B, wa, wb) ==
    LET \* numpy's broadcasting of two axes of lengths m and n
        Broadcasts(m, n) == m = n \/ m = 1 \/ n = 1
        BroadcastLen(m, n) == IF m = 1 THEN n ELSE m
        at(X, r, c) == X.rows[IF NRows(X) = 1 THEN 1 ELSE r][IF NCols(X) = 1 THEN 1 ELSE c]
    IN IF ~(Broadcasts(NRows(A), NRows(B)) /\ Broadcasts(NCols(A), NCols(B)))
       THEN VecRaise
       ELSE VecOk([rank |-> Max(A.rank, B.rank),
                   rows |-> [r \in 1..BroadcastLen(NRows(A), NRows(B)) |->
                               [c \in 1..BroadcastLen(NCols(A), NCols(B)) |->
                                   TruncDiv(wa * at(A, r, c) + wb * at(B, r, c),
                                            WeightOne)]]])

\* _combine_vectors without the early returns of lines 467-470: an empty input
\* is padded and weighted like any other
CombineVectorsAlwaysWeighted(a, b, wa, wb) ==
    IF ~NonEmpty(a) /\ ~NonEmpty(b) THEN VecOk(EmptyVec)
    ELSE LET max_dim == Max(PyLen(a), PyLen(b))
         IN WeightedSum(PadEnd(a, max_dim - PyLen(a)), PadEnd(b, max_dim - PyLen(b)),
                        wa, wb)

\* _combine_vectors cutting the longer vector to the shorter one's length
CombineVectorsTruncating(a, b, wa, wb) ==
    IF ~NonEmpty(a) /\ ~NonEmpty(b) THEN VecOk(EmptyVec)
    ELSE IF ~NonEmpty(a) THEN VecOk(b)
    ELSE IF ~NonEmpty(b) THEN VecOk(a)
    ELSE LET min_dim == Min(PyLen(a), PyLen(b))
             cut(x) == [rank |-> x.rank,
                        rows |-> IF x.rank = 1 THEN <<SubSeq(x.rows[1], 1, min_dim)>>
                                 ELSE SubSeq(x.rows, 1, min_dim)]
         IN WeightedSum(cut(a), cut(b), wa, wb)

\* _combine_vectors, lines 447-485
CombineVectors(a, b, wa, wb) ==
    IF ~NonEmpty(a) /\ ~NonEmpty(b) THEN VecOk(EmptyVec)
    ELSE IF ~NonEmpty(a) THEN VecOk(b)
    ELSE IF ~NonEmpty(b) THEN VecOk(a)
    ELSE LET max_dim == Max(PyLen(a), PyLen(b))
             vec_a == PadEnd(a, max_dim - PyLen(a))
             vec_b == PadEnd(b, max_dim - PyLen(b))
         IN WeightedSum(vec_a, vec_b, wa, wb)

-----------------------------------------------------------------------------
(* RecommendationService: the interaction log and its decayed vector *)

MaxGroups == 2    \* interaction types of a log of the model, its padding apart

HalfLifeDays == 30     \* getattr(Config, "INTERACTION_HALF_LIFE_DAYS", 30)
DecayOne == 120        \* the float 1.0 of a decay factor
NowDay == 1000         \* datetime.now(timezone.utc).timestamp(), in days

allowed_keys ==
    {"APPLY", "SAVE", "CLICK",
     "CLICK_FROM_SIMILAR", "CLICK_FROM_RECOMMENDED", "CLICK_FROM_SEARCH",
     "SKIP_FROM_SIMILAR", "SKIP_FROM_RECOMMENDED", "SKIP_FROM_SEARCH"}

\* app.config.INTERACTION_WEIGHTS: positive for APPLY, SAVE and the clicks,
\* negative for the skips.
INTERACTION_WEIGHTS ==
    [k \in allowed_keys |->
        CASE k = "APPLY" -> 5
          [] k = "SAVE" -> 3
          [] k \in {"SKIP_FROM_SIMILAR", "SKIP_FROM_RECOMMENDED", "SKIP_FROM_SEARCH"} -> -1
          [] OTHER -> 1]

\* str(raw_key).upper() on the keys of the model
Upper(raw_key) == IF raw_key = "save" THEN "SAVE" ELSE raw_key

\* milvus_service.get_job_dense_vector(j_id): job 3 has no vector, job 4 has
\* one of another dimension.
GetJobDenseVector(j_id) ==
    CASE j_id = 1 -> [present |-> TRUE, vec |-> [i \in 1..Dim |-> IF i = 1 THEN Scale ELSE 0]]
      [] j_id = 2 -> [present |-> TRUE,
                      vec |-> [i \in 1..Dim |-> IF i = 1 THEN (3 * Scale) \div 5
                                                ELSE IF i = 2 THEN (4 * Scale) \div 5
                                                ELSE 0]]
      [] j_id = 4 -> [present |-> TRUE,
                      vec |-> [i \in 1..(Dim + 1) |-> IF i = 1 THEN Scale ELSE 0]]
      [] OTHER -> [present |-> FALSE, vec |-> <<>>]

\* 2^q
RECURSIVE Pow2(_)
Pow2(q) == IF q = 0 THEN 1 ELSE 2 * Pow2(q - 1)

\* _exp_time_decay halving at the whole half-lives only, constant between them
ExpTimeDecaySteps(ts, now_ts, half_life_days) ==
    IF ts.t = "none" THEN DecayOne
    ELSE IF ~IntOf(ts).ok THEN DecayOne
    ELSE DecayOne \div Pow2(Max(0, now_ts - IntOf(ts).n) \div half_life_days)

\* _exp_time_decay, lines 487-506: exp(-ln 2 * delta_days / half_life_days),
\* exact at the multiples of the half-life and linear between two of them
ExpTimeDecay(ts, now_ts, half_life_days) ==
    IF ts.t = "none" THEN DecayOne
    ELSE IF ~IntOf(ts).ok THEN DecayOne
    ELSE LET delta_days == Max(0, now_ts - IntOf(ts).n)
             q == delta_days \div half_life_days
             r == delta_days % half_life_days
             hi == DecayOne \div Pow2(q)
             lo == DecayOne \div Pow2(q + 1)
         IN hi - ((hi - lo) * r) \div half_life_days

\* One entry of an interaction type: the job id and the timestamp (None in a
\* list of ids).
Entry(job_id, ts) == [job_id |-> job_id, ts |-> ts]

\* lines 396-401: the (job_id, ts) pairs of the entries of one type
Items(entries) ==
    CASE entries.t = "dict" -> entries.items
      [] entries.t = "list" ->
            [i \in 1..Len(entries.items) |-> Entry(entries.items[i].job_id, NoneV)]
      [] OTHER -> <<>>

\* Contribution without the length test of line 409: a job vector of another
\* dimension is added over the components it shares with acc
ContributionAnyDimension(base_w, item, dimension, index_up) ==
    LET j == IntOf(item.job_id)
    IN IF ~j.ok THEN [raised |-> FALSE, acc |-> Zeros(dimension), weight |-> 0]
       ELSE IF ~index_up THEN [raised |-> TRUE, acc |-> Zeros(dimension), weight |-> 0]
       ELSE LET job_vec == GetJobDenseVector(j.n)
            IN IF ~job_vec.present
               THEN [raised |-> FALSE, acc |-> Zeros(dimension), weight |-> 0]
               ELSE LET w == base_w * ExpTimeDecay(item.ts, NowDay, HalfLifeDays)
                    IN [raised |-> FALSE,
                        acc |-> [i \in 1..dimension |->
                                   IF i <= Len(job_vec.vec) THEN w * job_vec.vec[i] ELSE 0],
                        weight |-> Abs(w)]

\* lines 403-418 for one pair: what it adds to acc and to weight_sum, or that
\* the lookup of the job vector raised
Contribution(base_w, item, dimension, index_up) ==
    LET j == IntOf(item.job_id)
    IN IF ~j.ok THEN [raised |-> FALSE, acc |-> Zeros(dimension), weight |-> 0]
       ELSE IF ~index_up THEN [raised |-> TRUE, acc |-> Zeros(dimension), weight |-> 0]
       ELSE LET job_vec == GetJobDenseVector(j.n)
            IN IF ~job_vec.present \/ Len(job_vec.vec) /= dimension
               THEN [raised |-> FALSE, acc |-> Zeros(dimension), weight |-> 0]
               ELSE LET w == base_w * ExpTimeDecay(item.ts, NowDay, HalfLifeDays)
                    IN [raised |-> FALSE,
                        acc |-> [i \in 1..dimension |-> w * job_vec.vec[i]],
                        weight |-> Abs(w)]

\* The pairs of the accepted types of a log, each with the weight of its type
\* (lines 389-403).
RECURSIVE Weighted(_)
Weighted(groups) ==
    IF groups = <<>> THEN <<>>
    ELSE LET g == Head(groups)
             key_upper == Upper(g.key)
             items == Items(g.entries)
             here == IF key_upper \notin allowed_keys
                        \/ key_upper \notin DOMAIN INTERACTION_WEIGHTS
                     THEN <<>>
                     ELSE [i \in 1..Len(items) |->
                             [base_w |-> INTERACTION_WEIGHTS[key_upper],
                              item |-> items[i]]]
         IN here \o Weighted(Tail(groups))

\* _compute_behavior_dense, lines 366-425
ComputeBehaviorDense(interactions, dimension, index_up) ==
    LET \* lines 420-425, after the loops have added the contributions cs
        Accumulated(cs) ==
            LET acc == [d \in 1..dimension |-> SumSeq([i \in 1..Len(cs) |-> cs[i].acc[d]])]
                weight_sum == SumSeq([i \in 1..Len(cs) |-> cs[i].weight])
            IN IF \E i \in 1..Len(cs) : cs[i].raised THEN VecRaise
               ELSE IF weight_sum > 0
               THEN VecOk(Flat([d \in 1..dimension |-> TruncDiv(acc[d], weight_sum)]))
               ELSE VecOk(Flat(Zeros(dimension)))
        Loops(pairs) ==
            Accumulated([i \in 1..Len(pairs) |->
                           Contribution(pairs[i].base_w, pairs[i].item, dimension, index_up)])
    IN IF interactions.t /= "dict" THEN VecOk(Flat(Zeros(dimension)))
       ELSE Loops(Weighted(interactions.groups))

\* _count_total_interactions, lines 255-266
CountTotalInteractions(interactions) ==
    IF interactions.t /= "dict" THEN 0
    ELSE SumSeq([i \in 1..Len(interactions.groups) |->
                   IF interactions.groups[i].entries.t \in {"dict", "list"}
                   THEN Len(interactions.groups[i].entries.items)
                   ELSE 0])

Group(key, t, items) == [key |-> key, entries |-> [t |-> t, items |-> items]]

\* The interaction types a log of the model is put together from.
GroupChoices ==
    <<Group("APPLY", "dict", <<Entry(IntV(1), NoneV)>>),
      Group("APPLY", "dict", <<Entry(StrV("abc"), NoneV), Entry(IntV(3), NoneV),
                               Entry(IntV(4), NoneV)>>),
      Group("APPLY", "int", <<>>),
      Group("save", "list", <<Entry(IntV(2), NoneV)>>),
      Group("CLICK", "dict", <<Entry(IntV(1), IntV(NowDay - 45)),
                               Entry(IntV(2), StrV("yesterday"))>>),
      Group("SKIP_FROM_SEARCH", "dict", <<Entry(IntV(1), IntV(NowDay + 10))>>),
      Group("SKIP_FROM_SEARCH", "list", <<Entry(IntV(2), NoneV)>>),
      Group("VIEW", "dict", <<Entry(IntV(1), NoneV)>>)>>

RECURSIVE GroupSeqs(_, _)
\* The logs of at most n of the types above, from the i-th on, each key once.
GroupSeqs(i, n) ==
    IF i > Len(GroupChoices) \/ n = 0 THEN {<<>>}
    ELSE GroupSeqs(i + 1, n)
         \cup {<<GroupChoices[i]>> \o rest : rest \in
                 {q \in GroupSeqs(i + 1, n - 1) :
                    \A j \in 1..Len(q) : q[j].key /= GroupChoices[i].key}}

\* n clicks on job 1 that bring a log to a given size.
Padding(n) ==
    Group("CLICK_FROM_RECOMMENDED", "list", [i \in 1..n |-> Entry(IntV(1), NoneV)])

PadSizes == {1, 4, 5, 19, 20, 100}

Log(groups) == [t |-> "dict", groups |-> groups]
NoLog == [t |-> "none", groups |-> <<>>]

\* user_interactions: None, or a dict from interaction types to entries.
LogInputs ==
    {NoLog}
    \cup {Log(q) : q \in GroupSeqs(1, MaxGroups)}
    \cup {Log(<<Padding(n)>>) : n \in PadSizes}

-----------------------------------------------------------------------------
(* RecommendationService: the user vectors and recommend *)

Users == {1, 2}   \* the users whose short-term vector the cache store may hold

\* The user of the profiles and of the recommend calls; the other one only
\* has a short-term vector computed, cached and invalidated.
FirstUser == CHOOSE u \in Users : \A v \in Users : u <= v

\* What milvus_service.generate_embeddings([text]) gives: an exception, a
\* falsy value, or a dict whose "dense" is empty, a list of one vector, or (as
\* the annotation of _embed_text_to_dense has it) one vector.
Embeddings ==
    {[t |-> "raise"], [t |-> "none"]}
    \cup {[t |-> "dict", dense |-> d] :
            d \in {Nested(<<>>),
                   Nested(<<GetJobDenseVector(1).vec>>),
                   Nested(<<GetJobDenseVector(2).vec>>),
                   Nested(<<[i \in 1..Dim |-> Scale \div 2]>>),
                   Nested(<<Zeros(Dim)>>),
                   Flat(GetJobDenseVector(2).vec),
                   Flat([i \in 1..Dim |-> Scale \div 2])}}

\* _embed_text_to_dense, lines 360-364
EmbedTextToDense(embeddings) ==
    IF embeddings.t = "raise" THEN VecRaise
    ELSE LET dense == IF embeddings.t = "dict" THEN embeddings.dense
                      ELSE Nested(<<<<>>>>)
         IN VecOk(IF NonEmpty(dense) THEN dense ELSE EmptyVec)

\* user_profile: a dict, of which the model keeps the "id".
Profiles == {[id |-> v] : v \in {NoneV, IntV(1), StrV("abc")}}

\* _calculate_long_term_user_vector, lines 96-130 (the upsert into the vector
\* index changes nothing the service reads, and its failure is swallowed)
LongTermVector(user_profile, embeddings) ==
    LET profile_dense == EmbedTextToDense(embeddings)
    IN IF profile_dense.raised THEN VecRaise
       ELSE IF ~NonEmpty(profile_dense.vec) THEN VecOk(EmptyVec)
       ELSE VecOk(NormalizeVector(profile_dense.vec))

\* The outcomes of the calls a request makes to the cache store and to the
\* vector index: whether get, setex and get_job_dense_vector succeed.
IoOutcomes == [get_ok : BOOLEAN, set_ok : BOOLEAN, index_up : BOOLEAN]

Absent == [present |-> FALSE, vec |-> EmptyVec]
Cached(v) == [present |-> TRUE, vec |-> v]

\* _calculate_short_term_user_vector writing to the cache on a hit too
ShortTermVectorRewriting(user_id, user_interactions, io, client, store) ==
    LET out(raised, vec, st, hit) ==
            [raised |-> raised, vec |-> vec, store |-> st, hit |-> hit]
        \* lines 174-185
        Store(v) ==
            out(FALSE, v,
                IF client /\ io.set_ok THEN [store EXCEPT ![user_id] = Cached(v)]
                ELSE store,
                FALSE)
        \* lines 168-172
        Miss(behavior_dense) ==
            IF behavior_dense.raised THEN out(TRUE, EmptyVec, store, FALSE)
            ELSE IF ~NonEmpty(behavior_dense.vec) THEN out(FALSE, EmptyVec, store, FALSE)
            ELSE Store(NormalizeVector(behavior_dense.vec))
    IN IF client /\ io.get_ok /\ store[user_id].present
       THEN out(FALSE, store[user_id].vec,
                [store EXCEPT ![user_id] = Cached(Flat(Zeros(Dim)))], TRUE)
       ELSE Miss(ComputeBehaviorDense(user_interactions, Dim, io.index_up))

\* _calculate_short_term_user_vector, lines 132-185: the vector returned
\* and the cache it leaves
ShortTermVector(user_id, user_interactions, io, client, store) ==
    LET out(raised, vec, st, hit) ==
            [raised |-> raised, vec |-> vec, store |-> st, hit |-> hit]
        \* lines 174-185
        Store(v) ==
            out(FALSE, v,
                IF client /\ io.set_ok THEN [store EXCEPT ![user_id] = Cached(v)]
                ELSE store,
                FALSE)
        \* lines 168-172
        Miss(behavior_dense) ==
            IF behavior_dense.raised THEN out(TRUE, EmptyVec, store, FALSE)
            ELSE IF ~NonEmpty(behavior_dense.vec) THEN out(FALSE, EmptyVec, store, FALSE)
            ELSE Store(NormalizeVector(behavior_dense.vec))
    IN IF client /\ io.get_ok /\ store[user_id].present
       THEN out(FALSE, store[user_id].vec, store, TRUE)
       ELSE Miss(ComputeBehaviorDense(user_interactions, Dim, io.index_up))

BlendColdBelow == 5       \* if interaction_count < 5
BlendGrowingBelow == 20   \* elif interaction_count < 20

\* Tiers whose upper ends take the threshold in.
BlendWeightsInclusive(interaction_count) ==
    IF interaction_count <= BlendColdBelow THEN <<9, 1>>
    ELSE IF interaction_count <= BlendGrowingBelow THEN <<6, 4>>
    ELSE <<3, 7>>

\* lines 239-245: alpha, beta in tenths
BlendWeights(interaction_count) ==
    IF interaction_count < BlendColdBelow THEN <<9, 1>>
    ELSE IF interaction_count < BlendGrowingBelow THEN <<6, 4>>
    ELSE <<3, 7>>

NoBlend == [reached |-> FALSE, n |-> 0, alpha |-> 0, beta |-> 0]

\* _calculate_user_vector, lines 203-253
CalculateUserVector(user_profile, user_interactions, embeddings, io, client, store) ==
    LET user_id == user_profile.id
        \* hit and long record the cache hit of the short-term call and the
        \* long-term vector of line 220
        out(raised, vec, st, blend) ==
            [raised |-> raised, vec |-> vec, store |-> st, blend |-> blend,
             hit |-> FALSE, long |-> VecOk(EmptyVec)]
        \* lines 250-253
        Final(final_dense, st, blend) ==
            IF final_dense.raised THEN out(TRUE, EmptyVec, st, blend)
            ELSE out(FALSE, NormalizeVector(final_dense.vec), st, blend)
        \* lines 236-248
        Blend(long_term_vector, short_term_vector, interaction_count, w) ==
            Final(CombineVectors(long_term_vector, short_term_vector.vec, w[1], w[2]),
                  short_term_vector.store,
                  [reached |-> TRUE, n |-> interaction_count,
                   alpha |-> w[1], beta |-> w[2]])
        \* lines 231-237
        WithShortTerm(long_term_vector, short_term_vector, interaction_count) ==
            IF short_term_vector.raised
            THEN out(TRUE, EmptyVec, short_term_vector.store, NoBlend)
            ELSE IF ~NonEmpty(short_term_vector.vec)
            THEN out(FALSE, long_term_vector, short_term_vector.store, NoBlend)
            ELSE Blend(long_term_vector, short_term_vector, interaction_count,
                       BlendWeights(interaction_count))
        WithCache(long_term_vector, short_term_vector, interaction_count) ==
            [WithShortTerm(long_term_vector, short_term_vector, interaction_count)
                EXCEPT !.hit = short_term_vector.hit]
        \* lines 221-230
        WithLongTerm(long_term_vector) ==
            IF long_term_vector.raised THEN out(TRUE, EmptyVec, store, NoBlend)
            ELSE IF user_id.t = "none" THEN out(FALSE, long_term_vector.vec, store, NoBlend)
            ELSE IF ~IntOf(user_id).ok THEN out(TRUE, EmptyVec, store, NoBlend)
            ELSE WithCache(long_term_vector.vec,
                           ShortTermVector(IntOf(user_id).n, user_interactions,
                                           io, client, store),
                           CountTotalInteractions(user_interactions))
        Recorded(long_term_vector) ==
            [WithLongTerm(long_term_vector) EXCEPT !.long = long_term_vector]
    IN Recorded(LongTermVector(user_profile, embeddings))

\* What the collaborators of one recommend call do: the profile and
\* interaction lookups, the embedding model, the cache store and the vector
\* index, the building of the filter expression, and the popular-jobs query
\* of the personalised path (popular_ok) and of the handler (fallback_ok).
RecommendOutcomes ==
    [profile : {"raise", "none", "found"},
     interactions : {[t |-> "raise"], Log(<<Padding(5)>>)},
     embeddings : {[t |-> "raise"], [t |-> "none"],
                   [t |-> "dict", dense |-> Flat(GetJobDenseVector(2).vec)]},
     io : {io \in IoOutcomes : io.get_ok = io.set_ok},
     search : {"raise", "none", "empty", "hits"},
     expr_ok : BOOLEAN,
     popular_ok : BOOLEAN,
     fallback_ok : BOOLEAN]

\* recommend, lines 30-94: what is returned (raised, or the source of the
\* list; its length is not modelled) and the cache that is left; filters is
\* the truth value of the filters argument
ServiceRecommend(user_id, filters, env, client, store) ==
    LET out(raised, source, st) == [raised |-> raised, source |-> source, store |-> st]
        \* lines 91-94: the handler
        Handler(st) == IF env.fallback_ok THEN out(FALSE, "popular", st)
                       ELSE out(TRUE, "none", st)
        \* return self._get_popular_jobs(top_k, filters) inside the try
        Popular(st) == IF env.popular_ok THEN out(FALSE, "popular", st)
                       ELSE Handler(st)
        \* lines 58-88
        WithUserVector(user_vector) ==
            IF user_vector.raised THEN Handler(user_vector.store)
            ELSE IF ~NonEmpty(user_vector.vec) THEN Popular(user_vector.store)
            ELSE IF filters /\ ~env.expr_ok THEN Handler(user_vector.store)
            ELSE IF env.search = "raise" THEN Handler(user_vector.store)
            ELSE IF env.search \in {"none", "empty"} THEN Popular(user_vector.store)
            ELSE out(FALSE, "content_based", user_vector.store)
    IN IF env.profile = "raise" \/ env.interactions.t = "raise" THEN Handler(store)
       ELSE IF env.profile = "none" THEN Popular(store)
       ELSE WithUserVector(CalculateUserVector([id |-> IntV(user_id)], env.interactions,
                                               env.embeddings, env.io, client, store))

\* call: what the call did with the cache store (the user of the key, a hit
\* of get, a delete that reached the store, an entry that delete removed), and
\* for synthesize the id of the profile and the long-term vector of line 220,
\* for the short-term call whether the vector index answered its lookups.
RsNew == [phase |-> "new", op |-> "none", log |-> NoLog, raised |-> FALSE,
          vec |-> EmptyVec, blend |-> NoBlend, source |-> "none",
          call |-> [user_id |-> 0, hit |-> FALSE, deleted |-> FALSE, removed |-> FALSE,
                    profile_id |-> NoneV, long_term |-> VecOk(EmptyVec),
                    index_up |-> TRUE]]
RsIdle == [RsNew EXCEPT !.phase = "idle"]
RsDone(op, log, raised, vec, blend, source) ==
    [phase |-> "done", op |-> op, log |-> log, raised |-> raised, vec |-> vec,
     blend |-> blend, source |-> source, call |-> RsNew.call]

\* __init__, lines 14-28: the client is kept only when the ping succeeds
Construct ==
    /\ rs.phase = "new"
    /\ \E ping_ok \in BOOLEAN : redis_client' = ping_ok
    /\ rs' = RsIdle
    /\ UNCHANGED <<fb, sr, cf, cache, cn, pf, rc>>

CallLongTerm ==
    /\ rs.phase = "idle"
    /\ \E user_profile \in Profiles, embeddings \in Embeddings :
          \E r \in {LongTermVector(user_profile, embeddings)} :
             rs' = RsDone("long_term", NoLog, r.raised, r.vec, NoBlend, "none")
    /\ UNCHANGED <<fb, sr, cf, cache, redis_client, cn, pf, rc>>

CallShortTerm ==
    /\ rs.phase = "idle"
    /\ \E user_id \in Users, io \in IoOutcomes :
        \E user_interactions \in IF user_id = FirstUser THEN LogInputs
                                 ELSE {Log(<<GroupChoices[4]>>)} :
          \E r \in {ShortTermVector(user_id, user_interactions, io, redis_client, cache)} :
             /\ rs' = [RsDone("short_term", user_interactions, r.raised, r.vec,
                              NoBlend, "none")
                          EXCEPT !.call.user_id = user_id, !.call.hit = r.hit,
                                 !.call.index_up = io.index_up]
             /\ cache' = r.store
    /\ UNCHANGED <<fb, sr, cf, redis_client, cn, pf, rc>>

CallSynthesize ==
    /\ rs.phase = "idle"
    /\ \E user_profile \in Profiles, user_interactions \in LogInputs,
          embeddings \in {e \in Embeddings :
                              \/ e.t /= "dict"
                              \/ e.dense \in {Nested(<<>>), Nested(<<GetJobDenseVector(2).vec>>),
                                               Flat([i \in 1..Dim |-> Scale \div 2])}},
          io \in IoOutcomes :
          \E r \in {CalculateUserVector(user_profile, user_interactions, embeddings,
                                         io, redis_client, cache)} :
             /\ rs' = [RsDone("synthesize", user_interactions, r.raised, r.vec, r.blend,
                              "none")
                         EXCEPT !.call.profile_id = user_profile.id,
                                !.call.long_term = r.long, !.call.hit = r.hit]
             /\ cache' = r.store
    /\ UNCHANGED <<fb, sr, cf, redis_client, cn, pf, rc>>

CallServiceRecommend ==
    /\ rs.phase = "idle"
    /\ \E user_id \in {FirstUser}, filters \in BOOLEAN, env \in RecommendOutcomes :
          \E r \in {ServiceRecommend(user_id, filters, env, redis_client, cache)} :
             /\ rs' = RsDone("recommend", NoLog, r.raised, EmptyVec, NoBlend, r.source)
             /\ cache' = r.store
    /\ UNCHANGED <<fb, sr, cf, redis_client, cn, pf, rc>>

\* An invalidation whose delete reaches the store and leaves the key there.
InvalidateKeepsEntry ==
    /\ rs.phase = "idle"
    /\ \E user_id \in Users, delete_ok \in BOOLEAN :
          /\ cache' = cache
          /\ rs' = [RsDone("invalidate", NoLog, FALSE, EmptyVec, NoBlend, "none")
                      EXCEPT !.call.user_id = user_id,
                             !.call.deleted = redis_client /\ delete_ok,
                             !.call.removed = redis_client /\ delete_ok
                                              /\ cache[user_id].present]
    /\ UNCHANGED <<fb, sr, cf, redis_client, cn, pf, rc>>

\* invalidate_short_term_cache, lines 187-201: a delete that raises is
\* logged and swallowed
Invalidate ==
    /\ rs.phase = "idle"
    /\ \E user_id \in Users, delete_ok \in BOOLEAN :
          /\ cache' = IF redis_client /\ delete_ok
                      THEN [cache EXCEPT ![user_id] = Absent]
                      ELSE cache
          /\ rs' = [RsDone("invalidate", NoLog, FALSE, EmptyVec, NoBlend, "none")
                      EXCEPT !.call.user_id = user_id,
                             !.call.deleted = redis_client /\ delete_ok,
                             !.call.removed = redis_client /\ delete_ok
                                              /\ cache[user_id].present]
    /\ UNCHANGED <<fb, sr, cf, redis_client, cn, pf, rc>>

\* The cache store drops a key when its TTL (cache_ttl, line 136) runs out.
Expire ==
    /\ \E user_id \in Users :
          /\ cache[user_id].present
          /\ cache' = [cache EXCEPT ![user_id] = Absent]
    /\ UNCHANGED <<fb, sr, cf, rs, redis_client, cn, pf, rc>>

ResetRec ==
    /\ rs.phase = "done"
    /\ rs' = RsIdle
    /\ UNCHANGED <<fb, sr, cf, cache, redis_client, cn, pf, rc>>

-----------------------------------------------------------------------------
-----------------------------------------------------------------------------
(* RecommendationService: direct calls of _combine_vectors and _exp_time_decay *)

MaxVecLen == 3    \* a vector passed to _combine_vectors has at most MaxVecLen components
MaxAgeDays == 40  \* a timestamp passed to _exp_time_decay is at most MaxAgeDays old
MaxAheadDays == 2 \* or at most MaxAheadDays in the future

Components == {0, (3 * Scale) \div 5, -((4 * Scale) \div 5)}

RECURSIVE SeqsUpTo(_, _)
\* The sequences over S of length at most n.
SeqsUpTo(S, n) ==
    IF n = 0 THEN {<<>>}
    ELSE LET shorter == SeqsUpTo(S, n - 1)
         IN shorter \cup {Append(q, x) : q \in {r \in shorter : Len(r) = n - 1}, x \in S}

\* The arguments a and b: the lists of floats, [] among them, and the nested
\* lists [[]] and [[0.6, -0.8]].
VectorArgs ==
    {Flat(q) : q \in SeqsUpTo(Components, MaxVecLen)}
        \cup {Nested(<<<<>>>>), Nested(<<<<(3 * Scale) \div 5, -((4 * Scale) \div 5)>>>>)}

\* The weights wa and wb: -1.0, 0.0, 0.7 and 1.0
WeightArgs == {-WeightOne, 0, 7, WeightOne}

\* The argument ts: None, a string that float() rejects, a number of days.
TimestampArgs ==
    {NoneV, StrV("yesterday")}
        \cup {IntV(d) : d \in (NowDay - MaxAgeDays)..(NowDay + MaxAheadDays)}

PfIdle == [phase |-> "idle", op |-> "none", a |-> EmptyVec, b |-> EmptyVec,
           wa |-> 0, wb |-> 0, out |-> VecOk(EmptyVec),
           ts1 |-> NoneV, ts2 |-> NoneV, decay1 |-> DecayOne, decay2 |-> DecayOne,
           log |-> NoLog, extra |-> [key |-> "", item |-> Entry(NoneV, NoneV)],
           index_up |-> TRUE, dense1 |-> VecOk(EmptyVec), dense2 |-> VecOk(EmptyVec),
           n |-> 0, blend_count |-> 0, row_count |-> 0, weights |-> <<0, 0>>,
           adaptive |-> NoArgs]

MaxInteractions == 21   \* the interaction counts 0..MaxInteractions
MaxEmptyCells == 2      \* cells of a row of the matrix without an interaction

\* A log of n entries, for the blend of _calculate_user_vector.
LogOfSize(n) == IF n = 0 THEN Log(<<>>) ELSE Log(<<Padding(n)>>)

\* A row of the interaction matrix with n interactions, of strength w, and
\* z cells without one.
RowOfSize(n, z, w) == [i \in 1..(n + z) |-> IF i <= n THEN w ELSE 0]

\* Entries that lines 389-410 pass over: a job id int() rejects, a job
\* without a vector in the index, a job whose vector has another dimension.
UnusableEntries ==
    {Entry(job_id, ts) : job_id \in {StrV("abc"), IntV(3), IntV(4)},
                         ts \in {NoneV, IntV(NowDay - 45)}}

\* What is added to a log: under key, one more item. A key the log does not
\* hold starts a new dict of entries.
Extras ==
    [key : {"APPLY", "save", "SKIP_FROM_SIMILAR"}, item : UnusableEntries]
    \cup {[key |-> "VIEW", item |-> Entry(IntV(1), NoneV)]}

\* The logs of the model that take one more item under extra.key.
Extensible(log, extra) ==
    \A i \in 1..Len(log.groups) :
        log.groups[i].key = extra.key => log.groups[i].entries.t \in {"dict", "list"}

\* interactions with extra.item added under extra.key
Extended(log, extra) ==
    IF \E i \in 1..Len(log.groups) : log.groups[i].key = extra.key
    THEN Log([i \in 1..Len(log.groups) |->
                IF log.groups[i].key = extra.key
                THEN Group(extra.key, log.groups[i].entries.t,
                           Append(log.groups[i].entries.items, extra.item))
                ELSE log.groups[i]])
    ELSE Log(Append(log.groups, Group(extra.key, "dict", <<extra.item>>)))

\* self._combine_vectors(a, b, wa, wb)
CallCombine ==
    /\ pf.phase = "idle"
    /\ \E a \in VectorArgs, b \in VectorArgs, wa \in WeightArgs, wb \in WeightArgs :
         pf' = [PfIdle EXCEPT !.phase = "done", !.op = "combine", !.a = a, !.b = b,
                              !.wa = wa, !.wb = wb, !.out = CombineVectors(a, b, wa, wb)]
    /\ UNCHANGED <<fb, sr, cf, rs, cache, redis_client, cn, rc>>

\* self._exp_time_decay(ts1, now_ts, half_life_days) and
\* self._exp_time_decay(ts2, now_ts, half_life_days), the same now_ts and
\* half_life_days in both
CallDecay ==
    /\ pf.phase = "idle"
    /\ \E ts1 \in TimestampArgs, ts2 \in TimestampArgs :
         pf' = [PfIdle EXCEPT !.phase = "done", !.op = "decay", !.ts1 = ts1, !.ts2 = ts2,
                              !.decay1 = ExpTimeDecay(ts1, NowDay, HalfLifeDays),
                              !.decay2 = ExpTimeDecay(ts2, NowDay, HalfLifeDays)]
    /\ UNCHANGED <<fb, sr, cf, rs, cache, redis_client, cn, rc>>

\* self._compute_behavior_dense(interactions, dimension) on a log and on the
\* same log with one more entry, the index in the same condition in both
CallBehavior ==
    /\ pf.phase = "idle"
    /\ \E q \in GroupSeqs(1, MaxGroups), extra \in Extras, index_up \in BOOLEAN :
         LET Dense(interactions) == ComputeBehaviorDense(interactions, Dim, index_up)
             calls == <<Log(q), Extended(Log(q), extra)>>
             outs == [i \in 1..2 |-> Dense(calls[i])]
         IN /\ Extensible(Log(q), extra)
            /\ pf' = [PfIdle EXCEPT !.phase = "done", !.op = "behavior", !.log = Log(q),
                                    !.extra = extra, !.index_up = index_up,
                                    !.dense1 = outs[1], !.dense2 = outs[2]]
    /\ UNCHANGED <<fb, sr, cf, rs, cache, redis_client, cn, rc>>

\* The two maturity policies for one user: the weights that
\* _calculate_user_vector picks for the user's log (lines 236-245) and the
\* strategy that recommend_with_adaptive_exploration picks for the user's row
\* (lines 110-120).
CallTiers ==
    /\ pf.phase = "idle"
    /\ \E n \in 0..MaxInteractions, z \in 0..MaxEmptyCells, w \in {1, 5} :
         LET blend_count == CountTotalInteractions(LogOfSize(n))
             row_count == InteractionCount(RowOfSize(n, z, w))
         IN pf' = [PfIdle EXCEPT !.phase = "done", !.op = "tiers", !.n = n,
                                 !.blend_count = blend_count, !.row_count = row_count,
                                 !.weights = BlendWeights(blend_count),
                                 !.adaptive = AdaptiveArgs(row_count)]
    /\ UNCHANGED <<fb, sr, cf, rs, cache, redis_client, cn, rc>>

ResetHelper ==
    /\ pf.phase = "done"
    /\ pf' = PfIdle
    /\ UNCHANGED <<fb, sr, cf, rs, cache, redis_client, cn, rc>>

-----------------------------------------------------------------------------
(* RecommendationService: _calculate_short_term_user_vector and
   invalidate_short_term_cache of two threads, one Redis command at a time *)

MaxRecords == 2   \* the writer records new interactions at most MaxRecords times

RaceUser == CHOOSE u \in Users : TRUE

\* The interaction log of the user after n recordings.
LogAfter(n) ==
    Log(SubSeq(<<GroupChoices[1], GroupChoices[4], GroupChoices[5]>>, 1, Min(n, 3)))

\* rc.log is the stored interaction log; req is the thread in
\* _calculate_short_term_user_vector (pc "get" before line 156, "set" between
\* lines 158 and 176, with the user_interactions it was called with); inv is
\* the thread that recorded interactions and calls invalidate_short_term_cache.
RcIdle ==
    [records |-> 0, log |-> LogAfter(0),
     req |-> [pc |-> "idle", log |-> NoLog, raised |-> FALSE, vec |-> EmptyVec],
     inv |-> [pc |-> "idle", deleted |-> FALSE]]

\* A request reads the user's interactions and calls
\* _calculate_short_term_user_vector(user_id, user_interactions).
ReqBegin ==
    /\ rs.phase = "idle" /\ rc.req.pc = "idle"
    /\ rc' = [rc EXCEPT !.req = [pc |-> "get", log |-> rc.log, raised |-> FALSE,
                                 vec |-> EmptyVec]]
    /\ UNCHANGED <<fb, sr, cf, rs, cache, redis_client, cn, pf>>

\* lines 154-161: redis_client.get(cache_key); a hit returns the cached vector
ReqGet ==
    /\ rc.req.pc = "get"
    /\ \E get_ok \in BOOLEAN :
         IF redis_client /\ get_ok /\ cache[RaceUser].present
         THEN rc' = [rc EXCEPT !.req.pc = "done", !.req.vec = cache[RaceUser].vec]
         ELSE rc' = [rc EXCEPT !.req.pc = "set"]
    /\ UNCHANGED <<fb, sr, cf, rs, cache, redis_client, cn, pf>>

\* lines 163-185 after a miss: the vector of the call's user_interactions is
\* computed, normalized and written with setex
ReqSet ==
    /\ rc.req.pc = "set"
    /\ \E set_ok \in BOOLEAN, index_up \in BOOLEAN :
         \E r \in {ShortTermVector(RaceUser, rc.req.log,
                                   [get_ok |-> FALSE, set_ok |-> set_ok,
                                    index_up |-> index_up],
                                   redis_client, cache)} :
            /\ cache' = r.store
            /\ rc' = [rc EXCEPT !.req.pc = "done", !.req.raised = r.raised,
                                !.req.vec = r.vec]
    /\ UNCHANGED <<fb, sr, cf, rs, redis_client, cn, pf>>

ReqReturn ==
    /\ rc.req.pc = "done"
    /\ rc' = [rc EXCEPT !.req.pc = "idle"]
    /\ UNCHANGED <<fb, sr, cf, rs, cache, redis_client, cn, pf>>

\* New interactions of the user are recorded; the recording thread goes on to
\* call invalidate_short_term_cache(user_id).
Record ==
    /\ rs.phase = "idle" /\ rc.inv.pc = "idle"
    /\ rc.records < MaxRecords
    /\ rc' = [rc EXCEPT !.records = @ + 1, !.log = LogAfter(rc.records + 1),
                        !.inv = [pc |-> "delete", deleted |-> FALSE]]
    /\ UNCHANGED <<fb, sr, cf, rs, cache, redis_client, cn, pf>>

\* lines 196-201: redis_client.delete(cache_key)
InvDelete ==
    /\ rc.inv.pc = "delete"
    /\ \E delete_ok \in BOOLEAN :
         /\ cache' = IF redis_client /\ delete_ok
                     THEN [cache EXCEPT ![RaceUser] = Absent] ELSE cache
         /\ rc' = [rc EXCEPT !.inv = [pc |-> "done", deleted |-> redis_client /\ delete_ok]]
    /\ UNCHANGED <<fb, sr, cf, rs, redis_client, cn, pf>>

InvReturn ==
    /\ rc.inv.pc = "done"
    /\ rc' = [rc EXCEPT !.inv.pc = "idle"]
    /\ UNCHANGED <<fb, sr, cf, rs, cache, redis_client, cn, pf>>

-----------------------------------------------------------------------------
\* RedisStreamConsumer (src/sync_service/consumer.py).  The stream holds the
\* messages 1..cn.produced; the consumer group has delivered 1..cn.delivered,
\* of which cn.pending are in the pending entries list and cn.acked were
\* acknowledged.  Reading with ">" delivers only messages never delivered.

MaxMsgs == 3
MaxCount == 2

\* What xack and xreadgroup can do: return, raise redis ConnectionError, raise
\* another exception.
CallOutcomes == {"ok", "connection_error", "error"}

\* What the environment does to one message of a batch: process_stream_message
\* returns or raises, the xack of the try body and the xack of the handler.  The
\* outcomes that the code never observes are fixed to "ok".
MsgOutcomes ==
    {e \in [proc : {"ok", "raise"}, ack : CallOutcomes, ack_again : CallOutcomes] :
        /\ e.proc = "raise" => e.ack = "ok"
        /\ (e.proc = "ok" /\ e.ack = "ok") => e.ack_again = "ok"}

NoBatch == [acked |-> <<>>, returned |-> {}, raised |-> {}, exit |-> "ok"]

\* The loop over message_list (lines 112-145).  The try body acknowledges after
\* process_stream_message returned; the except handler, entered when either
\* call of the body raised, acknowledges too, and an exception of that xack
\* leaves the loop.  acked is the sequence of xack
\* calls that succeeded, returned and raised are the messages for which
\* process_stream_message returned or raised, exit is "ok" when the loop ran to
\* its end and the exception that left it otherwise.
\* ProcessList with a handler that only logs: a message whose processing (or
\* whose first xack) raised is passed over without the xack of lines 143-145
RECURSIVE ProcessListLogOnly(_, _, _)
ProcessListLogOnly(message_list, env, acc) ==
    IF message_list = <<>> THEN acc
    ELSE LET message_id == Head(message_list)
             e == env[message_id]
             seen == [acc EXCEPT !.returned = IF e.proc = "ok" THEN @ \cup {message_id} ELSE @,
                                 !.raised = IF e.proc = "raise" THEN @ \cup {message_id} ELSE @]
             acknowledged == [seen EXCEPT !.acked = Append(@, message_id)]
         IN  IF e.proc = "ok" /\ e.ack = "ok"
             THEN ProcessListLogOnly(Tail(message_list), env, acknowledged)
             ELSE ProcessListLogOnly(Tail(message_list), env, seen)

RECURSIVE ProcessList(_, _, _)
ProcessList(message_list, env, acc) ==
    IF message_list = <<>> THEN acc
    ELSE LET message_id == Head(message_list)
             e == env[message_id]
             seen == [acc EXCEPT !.returned = IF e.proc = "ok" THEN @ \cup {message_id} ELSE @,
                                 !.raised = IF e.proc = "raise" THEN @ \cup {message_id} ELSE @]
             acknowledged == [seen EXCEPT !.acked = Append(@, message_id)]
         IN  IF e.proc = "ok" /\ e.ack = "ok"
             THEN ProcessList(Tail(message_list), env, acknowledged)
             ELSE IF e.ack_again = "ok"
                  THEN ProcessList(Tail(message_list), env, acknowledged)
                  ELSE [seen EXCEPT !.exit = e.ack_again]

\* xreadgroup with ">" and count: the next count messages never delivered.
NewMessages(count) ==
    [i \in 1..Min(count, cn.produced - cn.delivered) |-> cn.delivered + i]

Range(s) == {s[i] : i \in 1..Len(s)}

\* process_messages: ret is "count" (return processed_count), "zero" (return 0
\* of the empty read or of the outer handler) or "raised" (ConnectionError).
ProcessMessages(count, read, env) ==
    LET message_list == IF read = "ok" THEN NewMessages(count) ELSE <<>>
        With(b) ==
            [delivered |-> cn.delivered + Len(message_list),
             pending |-> (cn.pending \cup Range(message_list)) \ Range(b.acked),
             acked |-> cn.acked \cup Range(b.acked),
             last |-> [batch |-> message_list, acked |-> b.acked,
                       returned |-> b.returned, raised |-> b.raised,
                       ret |-> IF read = "connection_error" \/ b.exit = "connection_error"
                                   THEN "raised"
                               ELSE IF read = "error" \/ b.exit = "error" \/ message_list = <<>>
                                   THEN "zero"
                               ELSE "count"]]
    IN  With(ProcessList(message_list, env, NoBatch))

NoCycle == [batch |-> <<>>, acked |-> <<>>, returned |-> {}, raised |-> {}, ret |-> "none"]

CnNew == [running |-> FALSE, stopped |-> FALSE, produced |-> 0, delivered |-> 0,
          pending |-> {}, acked |-> {}, last |-> NoCycle]

\* A producer appends a message to the stream (XADD by the outbox relay).
Produce ==
    /\ cn.produced < MaxMsgs
    /\ cn' = [cn EXCEPT !.produced = @ + 1]
    /\ UNCHANGED <<fb, sr, cf, rs, cache, redis_client, pf, rc>>

\* run: self.running = True (line 163).
Run ==
    /\ ~cn.running /\ ~cn.stopped
    /\ cn' = [cn EXCEPT !.running = TRUE]
    /\ UNCHANGED <<fb, sr, cf, rs, cache, redis_client, pf, rc>>

\* One iteration of the loop of run (lines 169-180): a call of process_messages;
\* an exception that it raised is logged and the loop goes on after a sleep.
Cycle ==
    /\ cn.running
    /\ \E count \in 1..MaxCount, read \in CallOutcomes :
         \E env \in [Range(NewMessages(count)) -> MsgOutcomes] :
           \E r \in {ProcessMessages(count, read, env)} :
             cn' = [cn EXCEPT !.delivered = r.delivered, !.pending = r.pending,
                              !.acked = r.acked, !.last = r.last]
    /\ UNCHANGED <<fb, sr, cf, rs, cache, redis_client, pf, rc>>

\* KeyboardInterrupt in the loop: stop() and break (lines 174-177, 182-187).
Interrupt ==
    /\ cn.running
    /\ cn' = [cn EXCEPT !.running = FALSE, !.stopped = TRUE]
    /\ UNCHANGED <<fb, sr, cf, rs, cache, redis_client, pf, rc>>

-----------------------------------------------------------------------------
Init ==
    /\ fb = FbIdle
    /\ sr = SrIdle
    /\ cf = CfIdle
    /\ rs = RsNew
    /\ cache = [u \in Users |-> Absent]
    /\ redis_client = FALSE
    /\ cn = CnNew
    /\ pf = PfIdle
    /\ rc = RcIdle

NextFilter == BuildFilter \/ ResetFilter

SpecFilter == Init /\ [][NextFilter]_vars

NextSearch == Search \/ SearchUpstreamDown \/ SearchPages \/ ResetSearch

SpecSearch == Init /\ [][NextSearch]_vars

NextCF == CallRecommend \/ CallAdaptive \/ ResetCF

SpecCF == Init /\ [][NextCF]_vars

NextRec ==
    \/ Construct \/ CallLongTerm \/ CallShortTerm \/ CallSynthesize
    \/ CallServiceRecommend \/ Invalidate \/ Expire \/ ResetRec

SpecRec == Init /\ [][NextRec]_vars

NextConsumer == Produce \/ Run \/ Cycle \/ Interrupt

SpecConsumer == Init /\ [][NextConsumer]_vars

\* The loop of run goes round for as long as self.running holds (lines
\* 169-180: every exception but KeyboardInterrupt is caught and the loop goes
\* on after the sleep), so an iteration that can change the state is taken.
SpecConsumerLive == SpecConsumer /\ WF_vars(Cycle)

NextHelpers == CallCombine \/ CallDecay \/ CallBehavior \/ CallTiers \/ ResetHelper

SpecHelpers == Init /\ [][NextHelpers]_vars

NextRace ==
    \/ Construct \/ ReqBegin \/ ReqGet \/ ReqSet \/ ReqReturn
    \/ Record \/ InvDelete \/ InvReturn

SpecRace == Init /\ [][NextRace]_vars
-----------------------------------------------------------------------------
(* The claims *)

\* filters in which the caller explicitly sets excludeExpired=false
ExcludeExpiredOff(filters) ==
    /\ filters.t = "dict"
    /\ "excludeExpired" \in DOMAIN filters.d
    /\ filters.d["excludeExpired"] = BoolV(FALSE)

StatusSupplied(filters) == filters.t = "dict" /\ "status" \in DOMAIN filters.d

InConditions(c, out) == \E i \in 1..Len(out.conditions) : out.conditions[i] = c

\* C2 (the claim as stated, refuted by the code): whenever the caller does
\* not set excludeExpired=false (filters None and {} included) and supplies no
\* status of their own, the predicate that is built holds both the condition
\* status == 'PUBLISHED' and the non-expired condition
\* (date_expires == 0 || date_expires > now_ms).
C2_DefaultPublishedAndNonExpired ==
    (fb.phase = "done" /\ ~fb.out.raised /\ ~ExcludeExpiredOff(fb.filters)
        /\ ~StatusSupplied(fb.filters))
    => /\ InConditions("status == 'PUBLISHED'", fb.out)
       /\ InConditions("(date_expires == 0 || date_expires > "
                          \o ToString(fb.now_ms) \o ")", fb.out)

\* The hits of the fused query that pass the threshold.
PassCount ==
    Cardinality({i \in 1..Len(sr.hits) :
                    sr.hits[i].score /= NoneV /\ sr.hits[i].score.n >= sr.threshold})

\* C3: for every limit >= 1, offset >= 0 and every list of at most limit+1
\* fused hits, search returns count = min(limit, q) ids, q the number of hits
\* that pass the threshold, has_next exactly when q > limit and has_prev
\* exactly when offset > 0.
C3_Pagination ==
    (sr.phase = "done" /\ ~sr.out.raised)
    => /\ Len(sr.hits) <= sr.limit + 1
       /\ Len(sr.out.job_ids) = sr.out.pagination.count
       /\ sr.out.pagination.count = (IF PassCount < sr.limit THEN PassCount ELSE sr.limit)
       /\ sr.out.pagination.has_next = (PassCount > sr.limit)
       /\ sr.out.pagination.has_prev = (sr.offset > 0)

\* The pagination scenario of the spec at the model's page size: limit+1
\* qualifying hits on page 0 give a full page, has_next and no has_prev.
C3_Witness ==
    /\ sr.phase = "done" /\ ~sr.out.raised
    /\ sr.limit = MaxLimit /\ sr.offset = 0 /\ sr.threshold > 0
    /\ PassCount = sr.limit + 1
    /\ sr.out.pagination.has_next /\ sr.out.pagination.count = sr.limit
    /\ ~sr.out.pagination.has_prev

\* C4 (the claim as stated, refuted by the code): the filter builder never
\* raises, whatever malformed value the filter object holds.
C4_BuilderNeverRaises ==
    fb.phase = "done" => ~fb.out.raised

CfServed == cf.phase = "done" /\ cf.trained /\ cf.user_id = 7

\* C5: recommend, with every strategy, and recommend_with_adaptive_exploration
\* return the empty list without raising whenever the user id has no entry in
\* user_id_to_index or the model is not trained.
C5_UnknownUserOrUntrainedIsEmpty ==
    (cf.phase = "done" /\ (~cf.trained \/ cf.user_id = 999999))
    => cf.out = [raised |-> FALSE, recs |-> <<>>]

C5_Witness ==
    /\ cf.phase = "done" /\ cf.op = "recommend" /\ cf.trained /\ cf.user_id = 999999
    /\ cf.args.strategy = "diversity" /\ cf.in.k > 0
    /\ cf.out = [raised |-> FALSE, recs |-> <<>>]

PositiveEntries == Cardinality({i \in DOMAIN cf.in.row : cf.in.row[i] > 0})
NonzeroEntries == Cardinality({i \in DOMAIN cf.in.row : cf.in.row[i] /= 0})

\* The strategy and its parameter for a count c, as the claim gives them.
TierOf(c) ==
    IF c < 5 THEN [strategy |-> "epsilon_greedy", parameter |-> 30]
    ELSE IF c < 20 THEN [strategy |-> "thompson", parameter |-> 10]
    ELSE [strategy |-> "diversity", parameter |-> 30]

RanTier ==
    [strategy |-> cf.ran.strategy,
     parameter |-> CASE cf.ran.strategy = "epsilon_greedy" -> cf.ran.epsilon
                     [] cf.ran.strategy = "thompson" -> cf.ran.noise_scale
                     [] cf.ran.strategy = "diversity" -> cf.ran.diversity_weight
                     [] OTHER -> -1]

C9_EpsilonGreedyBudget ==
    (CfServed /\ cf.op = "recommend" /\ cf.args.strategy = "epsilon_greedy")
    => /\ ~cf.out.raised
       /\ Len(cf.out.recs) <= cf.in.k
       /\ cf.args.epsilon = 0 =>
            cf.out.recs = TopKExploit(cf.in.snap, cf.in.row, cf.in.map, cf.in.k,
                                      cf.in.filter_seen)

C9_Witness ==
    /\ CfServed /\ cf.op = "recommend" /\ cf.args.strategy = "epsilon_greedy"
    /\ cf.args.epsilon = 0 /\ cf.in.k = 2 /\ Len(cf.out.recs) = 2

\* C10: with diversity_weight = 0 the diversity strategy returns exactly the
\* first k of the 3k exploit candidates, in their order.
C10_MmrZeroWeightIsRelevance ==
    (CfServed /\ cf.op = "recommend" /\ cf.args.strategy = "diversity"
        /\ cf.args.diversity_weight = 0)
    => cf.out.recs = Take(TopKExploit(cf.in.snap, cf.in.row, cf.in.map, 3 * cf.in.k,
                                      cf.in.filter_seen), cf.in.k)

\* The greedy selection ran: there were more than k candidates.
C10_Witness ==
    /\ CfServed /\ cf.op = "recommend" /\ cf.args.strategy = "diversity"
    /\ cf.args.diversity_weight = 0 /\ cf.in.k >= 1
    /\ Len(TopKExploit(cf.in.snap, cf.in.row, cf.in.map, 3 * cf.in.k,
                       cf.in.filter_seen)) > cf.in.k
    /\ Len(cf.out.recs) = cf.in.k

\* The vector a finished call of one of the three syntheses returned.
Synthesized ==
    /\ rs.phase = "done"
    /\ rs.op \in {"long_term", "short_term", "synthesize"}
    /\ ~rs.raised

\* x has L2 norm 1, up to the rounding of its components.
IsUnit(x) ==
    LET components == SumSeq([r \in 1..Len(x.rows) |-> Len(x.rows[r])])
    IN Abs(Norm(x) - Scale * Scale) <= Scale * components

\* The entries of a log, counted one by one over all its interaction types.
EntryCount(log) ==
    Cardinality(UNION {{<<g, i>> : i \in 1..Len(log.groups[g].entries.items)} :
                          g \in 1..Len(log.groups)})

\* C1 (the claim as stated, refuted by the code): recommend never raises to
\* its caller; when a step of the personalised path fails it returns the
\* popular jobs, and when the popular-jobs query fails too it still returns
\* a list.
C1_RecommendNeverRaises ==
    (rs.phase = "done" /\ rs.op = "recommend")
    => /\ ~rs.raised
       /\ rs.source \in {"content_based", "popular", "empty"}

\* C6 (the claim as stated, refuted by the code): every vector returned by
\* the long-term synthesis, the short-term synthesis (computed or read from
\* the cache) and the blended synthesis is empty or has L2 norm 1.
C6_ReturnedVectorEmptyOrUnit ==
    Synthesized => (~NonEmpty(rs.vec) \/ IsUnit(rs.vec))

FreshShortTerm(log) == NormalizeVector(ComputeBehaviorDense(log, Dim, TRUE).vec)

InvalidateDone == rs.phase = "done" /\ rs.op = "invalidate"

C12_AckOnlyAfterSuccess ==
    \A i \in 1..Len(cn.last.acked) : cn.last.acked[i] \notin cn.last.raised

CombineDone == pf.phase = "done" /\ pf.op = "combine"

\* The two arguments are non-empty lists of floats of different lengths.
DifferentLengths ==
    /\ pf.a.rank = 1 /\ pf.b.rank = 1
    /\ NonEmpty(pf.a) /\ NonEmpty(pf.b)
    /\ PyLen(pf.a) /= PyLen(pf.b)

C14_CombineWithEmptyIsIdentity ==
    CombineDone =>
        /\ ~NonEmpty(pf.b) => pf.out = VecOk(pf.a)
        /\ ~NonEmpty(pf.a) => pf.out = VecOk(pf.b)

\* C14: a non-empty vector with a nonzero component was combined with [] under
\* a weight other than 1 and came back as it was.
C14_Witness ==
    /\ CombineDone
    /\ ~NonEmpty(pf.b) /\ NonEmpty(pf.a)
    /\ pf.wa \notin {0, WeightOne}
    /\ \E i \in 1..Len(pf.a.rows[1]) : pf.a.rows[1][i] /= 0
    /\ pf.out = VecOk(pf.a)

DecayDone == pf.phase = "done" /\ pf.op = "decay"

\* Both timestamps are numbers and the first is the more recent one.
MoreRecent == pf.ts1.t = "int" /\ pf.ts2.t = "int" /\ pf.ts1.n > pf.ts2.n

\* C15 as stated (decay strictly larger for the more recent of any two distinct
\* timestamps, decay of an absent timestamp exactly 1.0).
C15_DecayStrictlyMonotone ==
    DecayDone =>
        /\ MoreRecent => pf.decay1 > pf.decay2
        /\ pf.ts1.t = "none" => pf.decay1 = DecayOne

\* C15 (decay monotonicity), as the code has it: for a fixed half-life and a
\* fixed current time the decay factor of the more recent of two timestamps is
\* never smaller, and it is strictly larger when the older timestamp lies
\* before the current time; a timestamp at or after the current time has the
\* factor 1.0, and so has an absent one.
C15_DecayMonotone ==
    DecayDone =>
        /\ MoreRecent => pf.decay1 >= pf.decay2
        /\ (MoreRecent /\ pf.ts2.n < NowDay) => pf.decay1 > pf.decay2
        /\ (pf.ts1.t = "int" /\ pf.ts1.n >= NowDay) => pf.decay1 = DecayOne
        /\ pf.ts1.t = "none" => pf.decay1 = DecayOne

\* C15: two distinct timestamps of the same half-life period, both in the past,
\* got different factors, the more recent one the larger.
C15_Witness ==
    /\ DecayDone /\ MoreRecent
    /\ pf.ts1.n < NowDay
    /\ (NowDay - pf.ts1.n) \div HalfLifeDays = (NowDay - pf.ts2.n) \div HalfLifeDays
    /\ pf.decay1 > pf.decay2

SearchReturned == sr.phase = "done" /\ ~sr.out.raised

\* The position in sr.hits of the hit with this id.
HitPos(id) == id - sr.offset * sr.limit

\* The hit at position i has a score and the score is at least the threshold.
AtOrAbove(i) == sr.hits[i].score.t = "int" /\ sr.hits[i].score.n >= sr.threshold

\* C16 (threshold filter): every id search returns is the id of a hit of the
\* fused query whose score is not null and not below the threshold; the ids
\* are in the order of their hits; and a hit at or above the threshold is
\* missing from the result only when the page is full and the hit comes after
\* every returned one.
C16_OnlyQualifyingHitsInOrder ==
    SearchReturned =>
        LET ids == sr.out.job_ids
        IN /\ \A j \in 1..Len(ids) :
                 HitPos(ids[j]) \in 1..Len(sr.hits) /\ AtOrAbove(HitPos(ids[j]))
           /\ \A j, l \in 1..Len(ids) : j < l => HitPos(ids[j]) < HitPos(ids[l])
           /\ \A i \in 1..Len(sr.hits) :
                 (AtOrAbove(i) /\ \A j \in 1..Len(ids) : ids[j] /= sr.hits[i].id) =>
                    /\ Len(ids) = sr.limit
                    /\ \A j \in 1..Len(ids) : HitPos(ids[j]) < i

\* C16: a fused result with a null score, a score below the threshold and a
\* score equal to it, of which search returned two ids or more.
C16_Witness ==
    /\ SearchReturned
    /\ \E i \in 1..Len(sr.hits) : sr.hits[i].score = NoneV
    /\ \E i \in 1..Len(sr.hits) :
          sr.hits[i].score.t = "int" /\ sr.hits[i].score.n < sr.threshold
    /\ \E i \in 1..Len(sr.hits) :
          sr.hits[i].score.t = "int" /\ sr.hits[i].score.n = sr.threshold
    /\ Len(sr.out.job_ids) >= 2

\* The job ids of the indexes with a positive entry in the user's row.
SeenJobs == {cf.in.map[i] : i \in SeenIndices(cf.in.row) \cap DOMAIN cf.in.map}

ReturnedJobs == {cf.out.recs[j].job_id : j \in 1..Len(cf.out.recs)}

\* C17 (Thompson sampling, filter_seen enabled): no returned job is a job the
\* user has interacted with, for every k >= 1 and every number of unseen items.
C17_ThompsonNeverReturnsSeen ==
    (CfServed /\ cf.ran.strategy = "thompson" /\ cf.in.filter_seen /\ cf.in.k >= 1)
    => ReturnedJobs \cap SeenJobs = {}

\* The scores of the returned list never increase.
DescendingScores ==
    \A j \in 1..(Len(cf.out.recs) - 1) : cf.out.recs[j].score >= cf.out.recs[j + 1].score

\* C19 as stated: the list returned by every strategy (exploit, epsilon-greedy,
\* Thompson, diversity) is in descending order of the reported score.
C19_EveryStrategyDescending ==
    CfServed => DescendingScores

\* C19, as the code has it: the list of the exploit strategy (which also runs
\* for a strategy name that recommend does not know) is in descending order of
\* the reported score.
C19_ExploitDescending ==
    (CfServed /\ cf.ran.strategy \notin {"epsilon_greedy", "thompson", "diversity"})
    => DescendingScores

\* C19: the exploit strategy returned two candidates or more, not all of the
\* same score.
C19_Witness ==
    /\ CfServed /\ cf.ran.strategy = "none"
    /\ Len(cf.out.recs) >= 2
    /\ cf.out.recs[1].score > cf.out.recs[Len(cf.out.recs)].score

EpsilonGreedyServed == CfServed /\ cf.ran.strategy = "epsilon_greedy"

\* The exploit portion of the epsilon-greedy call (line 183) and the explore
\* portion of its result: the returned candidates whose job is not exploited.
ExploitPortion ==
    TopKExploit(cf.in.snap, cf.in.row, cf.in.map,
                cf.in.k - ExploreCount(cf.in.k, cf.ran.epsilon), cf.in.filter_seen)
ExploitedJobs == {ExploitPortion[j].job_id : j \in 1..Len(ExploitPortion)}
ExploredJobs == ReturnedJobs \ ExploitedJobs

NoJobTwice ==
    \A i, j \in 1..Len(cf.out.recs) :
        cf.out.recs[i].job_id = cf.out.recs[j].job_id => i = j

OneToOne(map) == \A i, j \in DOMAIN map : map[i] = map[j] => i = j

\* C20 as stated: in every epsilon-greedy result no item of the explore portion
\* is a job the user has interacted with and no job id occurs twice, for every
\* filter_seen and every index_to_item_id.
C20_ExploreNeitherSeenNorExploitedAlways ==
    EpsilonGreedyServed =>
        /\ ExploredJobs \cap SeenJobs = {}
        /\ NoJobTwice

\* C20, as the code has it: with filter_seen enabled no item of the explore
\* portion is a job the user has interacted with; no explored job is an
\* exploited one, so with a one-to-one index_to_item_id no job id occurs twice
\* in the result, whatever filter_seen is.
C20_ExploreNeitherSeenNorExploited ==
    EpsilonGreedyServed =>
        /\ cf.in.filter_seen => ExploredJobs \cap SeenJobs = {}
        /\ OneToOne(cf.in.map) => NoJobTwice
        /\ \A i, j \in 1..Len(cf.out.recs) :
              (i /= j /\ cf.out.recs[i].job_id = cf.out.recs[j].job_id)
                 => cf.out.recs[i].job_id \in ExploitedJobs

\* C20: a result with an exploited and an explored job, for a user with a seen
\* job and filter_seen enabled.
C20_Witness ==
    /\ EpsilonGreedyServed /\ cf.in.filter_seen
    /\ SeenJobs /= {}
    /\ ExploredJobs /= {}
    /\ ReturnedJobs \cap ExploitedJobs /= {}

\* Both threads have finished, and the delete of the invalidation reached the
\* cache store.
BothFinished == rc.req.pc = "done" /\ rc.inv.pc = "done" /\ rc.inv.deleted

\* C18 (a short-term miss racing an invalidation): after both have finished the
\* cache holds no vector computed from the interaction log as it was before the
\* invalidation: it is empty or holds the vector of the log as recorded.
C18_NoStaleVectorAfterRace ==
    (BothFinished /\ cache[RaceUser].present)
    => cache[RaceUser].vec = FreshShortTerm(rc.log)

\* The top k of the unseen indexes by the score against the unperturbed user
\* factor, as job ids with that score.
TopKUnseenByTrueScore ==
    LET true == [i \in 1..cf.in.snap.n |-> Dot(cf.in.snap.uf, ItemFactor(cf.in.snap.fv, i))]
        unseen == (1..cf.in.snap.n) \ SeenIndices(cf.in.row)
    IN ThompsonOut(Take(RankDesc(unseen, true), cf.in.k), cf.in.snap, cf.in.map)

\* C21 (Thompson sampling reports the noise-free score): every reported score
\* is the dot product of the item with the unperturbed user factor, and with
\* noise scale 0 and filter_seen enabled the result is the top k unseen items
\* by that score.
C21_ThompsonZeroNoiseIsTopKUnseen ==
    (CfServed /\ cf.ran.strategy = "thompson")
    => /\ \A j \in 1..Len(cf.out.recs) :
             \E i \in DOMAIN cf.in.map :
                /\ cf.in.map[i] = cf.out.recs[j].job_id
                /\ cf.out.recs[j].score = Dot(cf.in.snap.uf, ItemFactor(cf.in.snap.fv, i))
       /\ (cf.ran.noise_scale = 0 /\ cf.in.filter_seen)
             => cf.out.recs = TopKUnseenByTrueScore

SynthesizeDone == rs.phase = "done" /\ rs.op = "synthesize"

\* No entry of the log can give a short-term vector: the log is no dict or is
\* empty, or each of its entries is of a type that is not accepted, has a job
\* id that is no integer, or names a job without a vector of the configured
\* dimension in the index.
NoUsableEntry(log) ==
    log.t = "dict" =>
        \A g \in 1..Len(log.groups) :
            \/ Upper(log.groups[g].key) \notin allowed_keys
            \/ log.groups[g].entries.t \notin {"dict", "list"}
            \/ \A i \in 1..Len(log.groups[g].entries.items) :
                  LET j == IntOf(log.groups[g].entries.items[i].job_id)
                  IN \/ ~j.ok
                     \/ ~GetJobDenseVector(j.n).present
                     \/ Len(GetJobDenseVector(j.n).vec) /= Dim

\* C22 (synthesize without a short-term vector): when the long-term vector was
\* computed and the profile has no id, or the cache has no vector for the user
\* and the log yields none, synthesize returns the long-term vector itself and
\* no blend step runs.
C22_NoShortTermIsLongTermAlone ==
    (/\ SynthesizeDone
     /\ ~rs.call.long_term.raised
     /\ \/ rs.call.profile_id = NoneV
        \/ /\ IntOf(rs.call.profile_id).ok
           /\ ~rs.call.hit
           /\ NoUsableEntry(rs.log))
    => /\ ~rs.raised
       /\ ~rs.blend.reached
       /\ rs.vec = rs.call.long_term.vec

\* A call of _calculate_short_term_user_vector, from its start to its return.
ShortTermCall == rs.phase = "idle" /\ rs'.phase = "done" /\ rs'.op = "short_term"

\* C23 (the short-term cache): on a hit the call returns the cached vector as
\* it is, needs no vector of the index (it returns also when the index is
\* down) and leaves the cache store as it was, whatever log it was given; a
\* call that missed changes at most the entry of its own user, and only to the
\* normalized vector computed from its log, which it returns.
C23_HitReadsOnlyMissWritesOwnKey ==
    [][ShortTermCall =>
          LET u == rs'.call.user_id
          IN /\ rs'.call.hit =>
                  /\ cache[u].present
                  /\ ~rs'.raised
                  /\ rs'.vec = cache[u].vec
                  /\ cache' = cache
             /\ ~rs'.call.hit =>
                  /\ \A v \in Users \ {u} : cache'[v] = cache[v]
                  /\ cache'[u] /= cache[u] =>
                        /\ ~rs'.raised
                        /\ rs'.vec = FreshShortTerm(rs'.log)
                        /\ cache'[u] = Cached(rs'.vec)]_vars

\* C23: a hit for a log whose own vector is another one, with the vector
\* index down, while the other user's vector is cached too.
C23_Witness ==
    /\ rs.phase = "done" /\ rs.op = "short_term" /\ ~rs.raised
    /\ rs.call.hit /\ ~rs.call.index_up
    /\ ~NoUsableEntry(rs.log)
    /\ rs.vec /= FreshShortTerm(rs.log)
    /\ cache[rs.call.user_id] = Cached(rs.vec)
    /\ \E v \in Users \ {rs.call.user_id} : cache[v].present

BehaviorDone == pf.phase = "done" /\ pf.op = "behavior"

\* The added entry is of an accepted type and has a job id int() accepts, so
\* line 408 asks the index for its vector.
LooksUp(extra) == Upper(extra.key) \in allowed_keys /\ IntOf(extra.item.job_id).ok

\* C24: an entry of an unknown type, with a job id that int() rejects, of a
\* job without a vector in the index or of a job whose vector has another
\* dimension, added to any log, leaves _compute_behavior_dense as it was: the
\* same vector, and no exception that the log without the entry did not
\* raise. (An entry that is looked up is compared while the index answers.)
C24_UnusableEntryChangesNothing ==
    (BehaviorDone /\ (LooksUp(pf.extra) => pf.index_up)) => pf.dense2 = pf.dense1

\* C24: a vector of another dimension added to a log with a non-zero decayed
\* vector, under a type the log already holds.
C24_Witness ==
    /\ BehaviorDone /\ pf.index_up
    /\ pf.extra.item.job_id = IntV(4)
    /\ \E i \in 1..Len(pf.log.groups) : pf.log.groups[i].key = pf.extra.key
    /\ ~pf.dense1.raised
    /\ pf.dense1.vec /= Flat(Zeros(Dim))
    /\ pf.dense2 = pf.dense1

\* A call of process_messages that read a batch and out of which no exception
\* of the per-message handler came: it returned processed_count.
BatchCompleted == cn.last.ret = "count"

FilterFields == FilterKeys \ {"excludeExpired"}

\* A field that the caller supplied with a non-empty value.
SuppliedNonEmpty(filters, k) ==
    /\ filters.t = "dict"
    /\ k \in DOMAIN filters.d
    /\ Truthy(filters.d[k])

\* The conditions a field stands for by itself: what the builder's step for
\* the field appends for a filter object that holds this field alone.
OwnConditions(k, v, now_ms) ==
    LET alone == [x \in {k} |-> v]
    IN CASE k = "status" -> StatusStep(alone).conditions
         [] k = "location" -> LocationStep(alone).conditions
         [] k = "salaryMin" -> SalaryStep(alone, "salaryMin", "salary_min >= ").conditions
         [] k = "salaryMax" -> SalaryStep(alone, "salaryMax", "salary_max <= ").conditions
         [] k = "datePosted" -> DatePostedStep(alone, now_ms).conditions
         [] k = "dateExpires" ->
               (IF v.t = "list" /\ Len(v.xs) = 2
                THEN RangeConds("date_expires", v).conditions
                ELSE ExactConds("date_expires", v).conditions)
         [] OTHER -> StringStep(alone).conditions

\* C26 (the claim as stated, refuted by the code): in the predicate built for
\* a filter object, every field supplied with a non-empty value has its own
\* condition, every condition is the one of a supplied field, the default
\* status condition or the non-expired condition, and the predicate is the
\* conditions joined with &&.
C26_FieldsOneToOne ==
    (fb.phase = "done" /\ ~fb.out.raised /\ fb.filters.t = "dict")
    => /\ \A k \in FilterFields :
            SuppliedNonEmpty(fb.filters, k) =>
               LET own == OwnConditions(k, fb.filters.d[k], fb.now_ms)
               IN /\ own /= <<>>
                  /\ \A i \in 1..Len(own) : InConditions(own[i], fb.out)
       /\ \A i \in 1..Len(fb.out.conditions) :
            \/ fb.out.conditions[i] \in {PublishedOnly, NonExpired(fb.now_ms)}
            \/ \E k \in FilterFields :
                 /\ SuppliedNonEmpty(fb.filters, k)
                 /\ InConditions(fb.out.conditions[i],
                       [conditions |-> OwnConditions(k, fb.filters.d[k], fb.now_ms)])
       /\ fb.out.expr = JoinAnd(fb.out.conditions)

\* C28 (the claim as stated, refuted by the code): every predicate the filter
\* builder returns holds a status equality condition: the one of the caller's
\* status when a non-empty status was supplied, status == 'PUBLISHED'
\* otherwise.
C28_AlwaysStatusCondition ==
    (fb.phase = "done" /\ ~fb.out.raised)
    => IF SuppliedNonEmpty(fb.filters, "status")
       THEN InConditions("status == '" \o EscapeQuote(PyStr(fb.filters.d["status"])) \o "'",
                         fb.out)
       ELSE InConditions(PublishedOnly, fb.out)

TiersDone == pf.phase = "done" /\ pf.op = "tiers"

\* The maturity tier that a pair of blend weights stands for.
BlendTier(weights) ==
    CASE weights = <<9, 1>> -> "cold"
      [] weights = <<6, 4>> -> "growing"
      [] weights = <<3, 7>> -> "mature"
      [] OTHER -> "none"

\* The maturity tier that an exploration strategy stands for.
ExplorationTier(strategy) ==
    CASE strategy = "epsilon_greedy" -> "cold"
      [] strategy = "thompson" -> "growing"
      [] strategy = "diversity" -> "mature"
      [] OTHER -> "none"

Paged == sr.phase = "paged"

\* The job ids of the page with offset p.
PageIds(p) == Range(sr.pages[p + 1].job_ids)

\* C30 (the claim as stated, refuted by the code): over one fused ranking the
\* pages of offsets 0, 1, 2, ... share no job id, and a page that reports
\* has_next is followed by a page with at least one job id.
C30_PagesDisjointAndContinued ==
    Paged =>
       /\ \A p \in 0..(MaxOffset + 1), q \in 0..(MaxOffset + 1) :
             p < q => PageIds(p) \cap PageIds(q) = {}
       /\ \A p \in 0..MaxOffset :
             sr.pages[p + 1].pagination.has_next => sr.pages[p + 2].job_ids /= <<>>

\* C29 (the claim as stated, refuted by the code): every message that the
\* loop of run has read from the consumer group is acknowledged at some later
\* point, unless the loop is stopped.
C29_EveryReadMessageEventuallyAcked ==
    \A message_id \in 1..MaxMsgs :
        (cn.delivered >= message_id) ~> (message_id \in cn.acked \/ cn.stopped)

====
